---- MODULE Spec2Model ----
(***************************************************************************)
(* Tool gating proxy: the Tool Gate Controller (toolset-registry.ts).      *)
(* Tool names are sequences of one-character strings so that the string    *)
(* operations of the code (toLowerCase, endsWith, slice, startsWith) are   *)
(* computed and not assumed.  Date.now() is the variable now: it advances  *)
(* only by Tick, so several operations may read the same millisecond.      *)
(***************************************************************************)
EXTENDS Integers, Sequences, FiniteSets, TLC

VARIABLES
    toolsetLoaders,          \* constructor argument: <<[id, tools, manifest]>> in key order
    filterConfig,            \* constructor argument: the filter configuration
    activeToolsets,          \* Set<string>, in insertion order
    loadedTools,             \* Record<name, tool>: <<[name, from]>> in key order
    toolsetTools,            \* Record<id, string[]>
    toolNameToToolsetIndex,  \* Map<normalized name, id[]>: potential owners
    manifestsLoaded,
    inflightEnable,          \* Map<id, Promise>: the stage of the promise, "none" if no entry
    toolsetLastUsed,         \* Map<id, number>: <<[id, at]>> in insertion order
    toolNameToActiveToolset, \* Map<name, id>: current owner
    pinned,
    now,                     \* Date.now()
    ctorBuild,               \* position of the constructor's buildReverseIndex() (0 = finished)
    callers,                 \* the ensureToolAvailable calls in progress
    directEnables,           \* enableToolset calls awaiting their loader, per toolset
    ret,                     \* history: the operation that just returned
    out,                     \* history: the last call of a function without side effects
    repoTools,               \* InMemoryToolRepository.tools: Map<name, tool>, insertion order
    repoCategories,          \* InMemoryToolRepository.categories: Map<category, name[]>
    repoCapabilities,        \* InMemoryToolRepository.capabilities: Map<capability, name[]>
    proxyConfig,             \* ProxyServer.config: [backendServers, requireTools]
    clients,                 \* MCPClientManager.clients: the names connected
    backendConnections,      \* ProxyServer.backendConnections: Set<string>, insertion order
    proxyPc,                 \* position of ProxyServer.start()
    serverConfig,            \* MCPServer.config: [loadBalancer]
    serverRunning,           \* MCPServer.running
    sweepInterval,           \* MCPServer.sweepInterval: "set" while the interval is scheduled
    currentSession,          \* MCPServer.currentSession: <<>> or <<id>>
    sessions,                \* SessionManager: the ids it holds, oldest first
    initialized,             \* the sessions whose isInitialized is true
    sessionsCreated,         \* the number of sessions created so far (ids are 1, 2, ...)
    liveSession,             \* history: the session last initialized, until terminated
    wsRunning,               \* WebSocketTransport.running (and ws is set)
    pendingRequests,         \* WebSocketTransport.pendingRequests: id -> waiter
    waiters,                 \* the promises sendRequest returned, with their timers
    requestHandler,          \* WebSocketTransport.requestHandler is set
    notificationHandler      \* WebSocketTransport.notificationHandler is set

vars == <<toolsetLoaders, filterConfig, activeToolsets, loadedTools, toolsetTools,
          toolNameToToolsetIndex, manifestsLoaded, inflightEnable, toolsetLastUsed,
          toolNameToActiveToolset, pinned, now, ctorBuild, callers, directEnables,
          ret, out, repoTools, repoCategories, repoCapabilities,
          proxyConfig, clients, backendConnections, proxyPc,
          serverConfig, serverRunning, sweepInterval, currentSession, sessions,
          initialized, sessionsCreated, liveSession,
          wsRunning, pendingRequests, waiters, requestHandler, notificationHandler>>

config == <<toolsetLoaders, filterConfig>>
repository == <<repoTools, repoCategories, repoCapabilities>>
\* the components next to the toolset controller
proxy == <<proxyConfig, clients, backendConnections, proxyPc>>
server == <<serverConfig, serverRunning, sweepInterval, currentSession, sessions,
            initialized, sessionsCreated, liveSession>>
handlers == <<requestHandler, notificationHandler>>
transport == <<wsRunning, pendingRequests, waiters, handlers>>
peers == <<repository, proxy, server, transport>>
ctl == <<activeToolsets, loadedTools, toolsetTools, toolsetLastUsed, toolNameToActiveToolset>>
index == <<toolNameToToolsetIndex, manifestsLoaded, ctorBuild>>

(***************************************************************************)
(* Bounds                                                                  *)
(***************************************************************************)
MaxTime == 2
NumCallers == 2
MaxDirect == 1

\* the calls of ensureToolAvailable that can be in progress at once
Callers == DOMAIN callers
NoSet == "none"

(***************************************************************************)
(* Sequences as the ordered collections of the code                        *)
(***************************************************************************)
Range(s) == {s[i] : i \in 1..Len(s)}

Without(s, x) == SelectSeq(s, LAMBDA e : e # x)

AddLast(s, x) == IF x \in Range(s) THEN s ELSE Append(s, x)

Min(a, b) == IF a <= b THEN a ELSE b

(***************************************************************************)
(* The constructor's arguments                                             *)
(***************************************************************************)
\* Object.keys(this.toolsetLoaders)
discoverToolsets == [i \in 1..Len(toolsetLoaders) |-> toolsetLoaders[i].id]

ToolsetIds == Range(discoverToolsets)

LoaderOf(name) == CHOOSE l \in Range(toolsetLoaders) : l.id = name

\* every tool name some loader returns
ToolNames == UNION {Range(l.tools) : l \in Range(toolsetLoaders)}

ttlMs == filterConfig.autoDisableTtlMs

maxActiveToolsets == filterConfig.maxActiveToolsets

(***************************************************************************)
(* The controller's tables as one record, so that an operation that calls  *)
(* another (enableToolset -> enforceLRUCap -> disableToolset) composes.    *)
(***************************************************************************)
Ctl == [activeToolsets |-> activeToolsets,
        loadedTools |-> loadedTools,
        toolsetTools |-> toolsetTools,
        toolsetLastUsed |-> toolsetLastUsed,
        toolNameToActiveToolset |-> toolNameToActiveToolset]

SetCtl(st) ==
    /\ activeToolsets' = st.activeToolsets
    /\ loadedTools' = st.loadedTools
    /\ toolsetTools' = st.toolsetTools
    /\ toolsetLastUsed' = st.toolsetLastUsed
    /\ toolNameToActiveToolset' = st.toolNameToActiveToolset

IsActive(st, name) == name \in Range(st.activeToolsets)

LoadedNames(st) == {st.loadedTools[i].name : i \in 1..Len(st.loadedTools)}

\* Map.get(name) ?? 0 on toolsetLastUsed
LastUsedOf(st, name) ==
    IF \E e \in Range(st.toolsetLastUsed) : e.id = name
    THEN (CHOOSE e \in Range(st.toolsetLastUsed) : e.id = name).at
    ELSE 0

HasLastUsed(st, name) == \E e \in Range(st.toolsetLastUsed) : e.id = name

\* Map.set(name, at): an existing key keeps its place, a new key goes last
LastUsedSet(m, name, at) ==
    IF \E e \in Range(m) : e.id = name
    THEN [i \in 1..Len(m) |-> IF m[i].id = name THEN [id |-> name, at |-> at] ELSE m[i]]
    ELSE Append(m, [id |-> name, at |-> at])

\* Object.assign(loadedTools, {n: tool}): an existing key keeps its place
AssignTool(loaded, n, from) ==
    IF \E e \in Range(loaded) : e.name = n
    THEN [i \in 1..Len(loaded) |->
            IF loaded[i].name = n THEN [name |-> n, from |-> from] ELSE loaded[i]]
    ELSE Append(loaded, [name |-> n, from |-> from])

RECURSIVE AssignTools(_, _, _)
AssignTools(loaded, names, from) ==
    IF names = <<>> THEN loaded
    ELSE AssignTools(AssignTool(loaded, Head(names), from), Tail(names), from)

(***************************************************************************)
(* disableToolset                                                          *)
(***************************************************************************)
DisableToolsetOp(st, name) ==
    IF ~IsActive(st, name) THEN st
    ELSE LET names == Range(st.toolsetTools[name])
         IN [activeToolsets |-> Without(st.activeToolsets, name),
             loadedTools |-> SelectSeq(st.loadedTools, LAMBDA e : e.name \notin names),
             toolsetTools |-> [st.toolsetTools EXCEPT ![name] = <<>>],
             toolsetLastUsed |-> SelectSeq(st.toolsetLastUsed, LAMBDA e : e.id # name),
             toolNameToActiveToolset |->
                 [n \in DOMAIN st.toolNameToActiveToolset |->
                     IF n \in names THEN NoSet ELSE st.toolNameToActiveToolset[n]]]

RECURSIVE DisableAll(_, _)
DisableAll(st, victims) ==
    IF victims = <<>> THEN st
    ELSE DisableAll(DisableToolsetOp(st, Head(victims)), Tail(victims))

(***************************************************************************)
(* enforceLRUCap                                                           *)
(***************************************************************************)
\* Array.prototype.sort by last use, oldest first; stable
RECURSIVE SortByLastUsed(_, _)
SortByLastUsed(st, seq) ==
    IF seq = <<>> THEN <<>>
    ELSE LET first == CHOOSE i \in 1..Len(seq) :
                        /\ \A j \in 1..Len(seq) : LastUsedOf(st, seq[i]) <= LastUsedOf(st, seq[j])
                        /\ \A j \in 1..(i - 1) : LastUsedOf(st, seq[j]) > LastUsedOf(st, seq[i])
         IN <<seq[first]>> \o SortByLastUsed(st, Without(seq, seq[first]))

\* LRU candidates without the `!this.pinned.has(name)` filter
LRUCandidatesWithPinned(st) == SortByLastUsed(st, st.activeToolsets)

LRUCandidates(st) ==
    SortByLastUsed(st, SelectSeq(st.activeToolsets, LAMBDA s : s \notin pinned))

LRUVictims(st) ==
    IF maxActiveToolsets = 0 \/ Len(st.activeToolsets) <= maxActiveToolsets THEN <<>>
    ELSE LET candidates == LRUCandidates(st)
             excessCount == Len(st.activeToolsets) - maxActiveToolsets
         IN SubSeq(candidates, 1, Min(excessCount, Len(candidates)))

EnforceLRUCapOp(st) ==
    LET toDisable == LRUVictims(st)
    IN [st |-> DisableAll(st, toDisable), disabled |-> toDisable]

(***************************************************************************)
(* enableToolset, from the point where the loader has returned its tools   *)
(***************************************************************************)
EnableLoaded(st, name, at) ==
    LET tools == LoaderOf(name).tools
    IN [activeToolsets |-> AddLast(st.activeToolsets, name),
        loadedTools |-> AssignTools(st.loadedTools, tools, name),
        toolsetTools |-> [st.toolsetTools EXCEPT ![name] = tools],
        toolsetLastUsed |-> LastUsedSet(st.toolsetLastUsed, name, at),
        toolNameToActiveToolset |->
            [n \in DOMAIN st.toolNameToActiveToolset |->
                IF n \in Range(tools) THEN name ELSE st.toolNameToActiveToolset[n]]]

EnableBodyOp(st, name, at) == EnforceLRUCapOp(EnableLoaded(st, name, at))

(***************************************************************************)
(* markUsed                                                                *)
(***************************************************************************)
OwnerOf(st, toolName) ==
    IF toolName \in DOMAIN st.toolNameToActiveToolset
    THEN st.toolNameToActiveToolset[toolName]
    ELSE NoSet

MarkUsedHits(st, toolName) ==
    OwnerOf(st, toolName) # NoSet /\ IsActive(st, OwnerOf(st, toolName))

\* markUsed that leaves the usage table alone
MarkUsedOpNoRefresh(st, toolName, at) == st

MarkUsedOp(st, toolName, at) ==
    IF MarkUsedHits(st, toolName)
    THEN [st EXCEPT !.toolsetLastUsed = LastUsedSet(@, OwnerOf(st, toolName), at)]
    ELSE st

(***************************************************************************)
(* sweepExpiredToolsets                                                    *)
(***************************************************************************)
\* expiry with `>=` in place of `>`
ExpiredAtTtl(at, lastUsed) == at - lastUsed >= ttlMs

Expired(at, lastUsed) == at - lastUsed > ttlMs

\* the for-of loop over toolsetLastUsed; entries deleted on the way are not visited
RECURSIVE SweepFrom(_, _, _)
SweepFrom(acc, entries, at) ==
    IF entries = <<>> THEN acc
    ELSE LET e == Head(entries)
             hit == /\ HasLastUsed(acc.st, e.id)
                    /\ IsActive(acc.st, e.id)
                    /\ e.id \notin pinned
                    /\ Expired(at, e.at)
         IN SweepFrom(IF hit
                      THEN [st |-> DisableToolsetOp(acc.st, e.id),
                            disabled |-> Append(acc.disabled, e.id)]
                      ELSE acc,
                      Tail(entries), at)

SweepExpiredOp(st, at) == SweepFrom([st |-> st, disabled |-> <<>>], st.toolsetLastUsed, at)

(***************************************************************************)
(* Tool names, normalization and patterns                                  *)
(***************************************************************************)
LowerChar(ch) ==
    CASE ch = "F" -> "f"
      [] ch = "R" -> "r"
      [] ch = "X" -> "x"
      [] OTHER -> ch

\* String.prototype.toLowerCase
ToLowerCase(str) == [i \in 1..Len(str) |-> LowerChar(str[i])]

normalizeToolName(toolName) ==
    IF filterConfig.autoEnableCaseInsensitive THEN ToLowerCase(toolName) ELSE toolName

\* pattern.endsWith('/*')
EndsWithSlashStar(pattern) ==
    Len(pattern) >= 2 /\ pattern[Len(pattern) - 1] = "/" /\ pattern[Len(pattern)] = "*"

\* str.startsWith(prefix)
StartsWith(str, prefix) ==
    Len(prefix) <= Len(str) /\ SubSeq(str, 1, Len(prefix)) = prefix

matchesPattern(toolName, pattern) ==
    IF EndsWithSlashStar(pattern)
    THEN StartsWith(toolName, SubSeq(pattern, 1, Len(pattern) - 2))
    ELSE toolName = pattern

AutoEnableAllowed(toolName) ==
    LET allowlist == filterConfig.autoEnableAllowlist
        blocklist == filterConfig.autoEnableBlocklist
    IN /\ filterConfig.autoEnableOnCall
       /\ ~\E i \in 1..Len(blocklist) : matchesPattern(toolName, blocklist[i])
       /\ \/ Len(allowlist) = 0
          \/ \E i \in 1..Len(allowlist) : matchesPattern(toolName, allowlist[i])

(***************************************************************************)
(* buildReverseIndex: one toolset per step (the awaits lie between them)   *)
(***************************************************************************)
IndexGet(idx, n) == IF n \in DOMAIN idx THEN idx[n] ELSE <<>>

RECURSIVE IndexPush(_, _, _)
IndexPush(idx, toolNames, setName) ==
    IF toolNames = <<>> THEN idx
    ELSE LET n == normalizeToolName(Head(toolNames))
             pushed == [m \in DOMAIN idx \cup {n} |->
                          IF m = n THEN Append(IndexGet(idx, n), setName) ELSE idx[m]]
         IN IndexPush(pushed, Tail(toolNames), setName)

BuildIndexEntry(idx, i) == IndexPush(idx, toolsetLoaders[i].manifest, toolsetLoaders[i].id)

(***************************************************************************)
(* ensureToolAvailable, after the index is awaited: the selected toolset   *)
(***************************************************************************)
Owners(toolName) == IndexGet(toolNameToToolsetIndex, normalizeToolName(toolName))

\* owners.find(owner => this.activeToolsets.has(owner)) || owners[0]
PreferEnabled(owners) ==
    IF \E i \in 1..Len(owners) : owners[i] \in Range(activeToolsets)
    THEN owners[CHOOSE i \in 1..Len(owners) :
                  /\ owners[i] \in Range(activeToolsets)
                  /\ \A j \in 1..(i - 1) : owners[j] \notin Range(activeToolsets)]
    ELSE owners[1]

\* this.filterConfig.autoEnableConflictResolution || 'prefer-enabled'
policy ==
    IF filterConfig.autoEnableConflictResolution = "undefined"
    THEN "prefer-enabled"
    ELSE filterConfig.autoEnableConflictResolution

Ambiguous(owners) ==
    policy = "error" /\ Len(owners) > 1

TargetToolset(owners) ==
    IF policy = "prefer-enabled"
    THEN PreferEnabled(owners)
    ELSE owners[1]

AlreadyLoaded(toolName) ==
    toolName \in LoadedNames(Ctl) \/ normalizeToolName(toolName) \in LoadedNames(Ctl)

\* what the synchronous part after `await this.buildReverseIndex()` decides
EnsureDecision(toolName) ==
    LET owners == Owners(toolName)
    IN IF Len(owners) = 0 THEN [res |-> "false", target |-> NoSet]
       ELSE IF Ambiguous(owners) THEN [res |-> "ambiguous", target |-> NoSet]
       ELSE IF TargetToolset(owners) \in Range(activeToolsets)
            THEN [res |-> "true", target |-> TargetToolset(owners)]
       ELSE IF ~AutoEnableAllowed(toolName)
            THEN [res |-> "false", target |-> TargetToolset(owners)]
       ELSE [res |-> "enable", target |-> TargetToolset(owners)]

(***************************************************************************)
(* History: the operation that returned in the last step (NoRet after a    *)
(* step that returns nothing a caller reads)                               *)
(***************************************************************************)
Ret(op, set, tools, res, disabled) ==
    [op |-> op, set |-> set, tools |-> tools, res |-> res, disabled |-> disabled]

NoRet == Ret("none", NoSet, {}, "none", <<>>)

NoOut == [op |-> "none"]

\* a call of ensureToolAvailable: where it stands, the promise it awaits (0: the one
\* in inflightEnable, else the caller that created it), the stage of the promise it
\* created once that is no longer in inflightEnable, the outcome of a promise it
\* found settled, and the calls whose continuation was queued before its own
IdleCaller ==
    [pc |-> "idle", tool |-> <<>>, target |-> NoSet, started |-> FALSE, bi |-> 0,
     promise |-> 0, load |-> "none", outcome |-> "none", behind |-> {}]

\* the calls awaiting a promise they found settled
Stragglers == {c \in Callers : callers[c].pc = "awaitSettled"}

\* the names the callers ask for: every tool of a loader, and one nobody provides
UnknownTool == <<"z">>

RequestNames == ToolNames \cup {UnknownTool}

UnknownToolset == "ghost"

(***************************************************************************)
(* Actions                                                                 *)
(***************************************************************************)
\* the clock moves on
Tick ==
    /\ now < MaxTime
    /\ now' = now + 1
    /\ ret' = NoRet
    /\ UNCHANGED <<peers, config, out, ctl, index, inflightEnable, pinned, callers, directEnables>>

\* constructor: void this.buildReverseIndex()
CtorBuildStep ==
    /\ ctorBuild > 0
    /\ toolNameToToolsetIndex' = BuildIndexEntry(toolNameToToolsetIndex, ctorBuild)
    /\ IF ctorBuild = Len(toolsetLoaders)
       THEN manifestsLoaded' = TRUE /\ ctorBuild' = 0
       ELSE manifestsLoaded' = manifestsLoaded /\ ctorBuild' = ctorBuild + 1
    /\ ret' = NoRet
    /\ UNCHANGED <<peers, config, out, ctl, inflightEnable, pinned, now, callers, directEnables>>

\* ensureToolAvailable(toolName), to its first await
EnsureCall(c, toolName) ==
    /\ callers[c].pc = "idle"
    /\ IF AlreadyLoaded(toolName)
       THEN /\ callers' = callers
            /\ ret' = Ret("ensureToolAvailable", NoSet, {toolName}, "true", <<>>)
       ELSE /\ callers' = [callers EXCEPT ![c] =
                   [IdleCaller EXCEPT !.pc = IF manifestsLoaded THEN "awaitIndex"
                                                               ELSE "building",
                                      !.tool = toolName,
                                      !.bi = IF manifestsLoaded THEN 0 ELSE 1,
                                      !.behind = IF manifestsLoaded THEN Stragglers
                                                                    ELSE {}]]
            /\ ret' = NoRet
    /\ UNCHANGED <<peers, config, out, ctl, index, inflightEnable, pinned, now, directEnables>>

\* the caller's own buildReverseIndex(), started while manifestsLoaded was false
EnsureBuildStep(c) ==
    /\ callers[c].pc = "building"
    /\ toolNameToToolsetIndex' = BuildIndexEntry(toolNameToToolsetIndex, callers[c].bi)
    /\ IF callers[c].bi = Len(toolsetLoaders)
       THEN /\ manifestsLoaded' = TRUE
            /\ callers' = [callers EXCEPT ![c].pc = "awaitIndex", ![c].bi = 0]
       ELSE /\ manifestsLoaded' = manifestsLoaded
            /\ callers' = [callers EXCEPT ![c].bi = @ + 1]
    /\ ret' = NoRet
    /\ UNCHANGED <<peers, config, out, ctl, ctorBuild, inflightEnable, pinned, now, directEnables>>

\* this.inflightEnable.get(targetToolset) is a promise
\* a lookup that never finds the promise in flight
HasInflightNever(target) == FALSE

HasInflight(target) == inflightEnable[target] # "none"

Settled == {"returned", "threw"}

\* ensureToolAvailable from the index lookup to `await enablePromise`; the
\* continuations queued before this one have run
EnsureResume(c) ==
    /\ callers[c].pc = "awaitIndex"
    /\ callers[c].behind \cap Stragglers = {}
    /\ LET d == EnsureDecision(callers[c].tool)
       IN IF d.res = "enable"
          THEN /\ callers' = [callers EXCEPT ![c].pc = IF inflightEnable[d.target] \in Settled
                                                      THEN "awaitSettled"
                                                      ELSE "awaitEnable",
                                             ![c].target = d.target,
                                             ![c].started = ~HasInflight(d.target),
                                             ![c].outcome = IF inflightEnable[d.target] \in Settled
                                                            THEN inflightEnable[d.target]
                                                            ELSE "none",
                                             ![c].behind = {}]
               /\ inflightEnable' =
                      [inflightEnable EXCEPT ![d.target] =
                          IF HasInflight(d.target) THEN @ ELSE "loading"]
               /\ ret' = NoRet
          ELSE /\ callers' = [callers EXCEPT ![c] = IdleCaller]
               /\ inflightEnable' = inflightEnable
               /\ ret' = Ret("ensureToolAvailable", d.target, {callers[c].tool}, d.res, <<>>)
    /\ UNCHANGED <<peers, config, out, ctl, index, pinned, now, directEnables>>

\* the calls awaiting a settled promise of toolset s
StragglersOf(s) == {c \in Stragglers : callers[c].target = s}

\* doEnableToolset: the loader resolves and enableToolset runs to its end
AutoLoaderResolve(s) ==
    /\ inflightEnable[s] = "loading"
    /\ StragglersOf(s) = {}
    /\ LET r == EnableBodyOp(Ctl, s, now)
       IN /\ SetCtl(r.st)
          /\ ret' = Ret("doEnableToolset", s, {}, "ok", r.disabled)
    /\ inflightEnable' = [inflightEnable EXCEPT ![s] = "returned"]
    /\ UNCHANGED <<peers, config, out, index, pinned, now, callers, directEnables>>

\* doEnableToolset: the loader rejects
AutoLoaderReject(s) ==
    /\ inflightEnable[s] = "loading"
    /\ StragglersOf(s) = {}
    /\ LoaderOf(s).flaky
    /\ inflightEnable' = [inflightEnable EXCEPT ![s] = "threw"]
    /\ ret' = NoRet
    /\ UNCHANGED <<peers, config, out, ctl, index, pinned, now, callers, directEnables>>

Waiters(s) == {c \in Callers : callers[c].pc = "awaitEnable" /\ callers[c].target = s}

\* the calls awaiting the promise that is in inflightEnable
MapWaiters(s) == {c \in Waiters(s) : callers[c].promise = 0}

\* the calls awaiting the promise that caller p created and that is no longer in
\* inflightEnable
OrphanWaiters(p) == {c \in Callers : callers[c].pc = "awaitEnable" /\ callers[c].promise = p}

Outcome(stage) == IF stage = "returned" THEN "true" ELSE "loaderError"

\* this.inflightEnable.delete(s) by a call other than those awaiting the promise
\* in the map: that promise stays with the calls awaiting it
DeleteEntry(cs, s) ==
    IF inflightEnable[s] = "none" THEN cs
    ELSE LET creator == CHOOSE c \in MapWaiters(s) : cs[c].started
         IN [c \in Callers |->
                IF c \in MapWaiters(s)
                THEN [cs[c] EXCEPT !.promise = creator,
                                   !.load = IF c = creator THEN inflightEnable[s] ELSE "none"]
                ELSE cs[c]]

\* the enable promise settles: the calls that awaited it while it was pending run
\* to their return one after the other, and the finally block deletes the entry
SettleEnable(s) ==
    /\ inflightEnable[s] \in Settled
    /\ callers' = [c \in Callers |-> IF c \in MapWaiters(s) THEN IdleCaller ELSE callers[c]]
    /\ ret' = Ret("ensureToolAvailable", s, {callers[c].tool : c \in MapWaiters(s)},
                  Outcome(inflightEnable[s]), <<>>)
    /\ inflightEnable' = [inflightEnable EXCEPT ![s] = "none"]
    /\ UNCHANGED <<peers, config, out, ctl, index, pinned, now, directEnables>>

\* a call that found the promise settled runs to its return, after the calls that
\* awaited the promise before; its finally block deletes the entry that is in
\* inflightEnable by then
StragglerResume(c) ==
    /\ callers[c].pc = "awaitSettled"
    /\ inflightEnable[callers[c].target] \notin Settled
    /\ callers' = [DeleteEntry(callers, callers[c].target) EXCEPT ![c] = IdleCaller]
    /\ ret' = Ret("ensureToolAvailable", callers[c].target, {callers[c].tool},
                  Outcome(callers[c].outcome), <<>>)
    /\ inflightEnable' = [inflightEnable EXCEPT ![callers[c].target] = "none"]
    /\ UNCHANGED <<peers, config, out, ctl, index, pinned, now, directEnables>>

\* doEnableToolset of a promise that is no longer in inflightEnable: the loader
\* resolves and enableToolset runs to its end
OrphanLoaderResolve(p) ==
    /\ callers[p].load = "loading"
    /\ LET r == EnableBodyOp(Ctl, callers[p].target, now)
       IN /\ SetCtl(r.st)
          /\ ret' = Ret("doEnableToolset", callers[p].target, {}, "ok", r.disabled)
    /\ callers' = [callers EXCEPT ![p].load = "returned"]
    /\ UNCHANGED <<peers, config, out, index, inflightEnable, pinned, now, directEnables>>

\* doEnableToolset of a promise that is no longer in inflightEnable: the loader rejects
OrphanLoaderReject(p) ==
    /\ callers[p].load = "loading"
    /\ LoaderOf(callers[p].target).flaky
    /\ callers' = [callers EXCEPT ![p].load = "threw"]
    /\ ret' = NoRet
    /\ UNCHANGED <<peers, config, out, ctl, index, inflightEnable, pinned, now, directEnables>>

\* a promise that is no longer in inflightEnable settles: the calls awaiting it run
\* to their return, and the finally block deletes the entry that is there by then
OrphanSettle(p) ==
    /\ callers[p].load \in Settled
    /\ callers' = [c \in Callers |->
                      IF c \in OrphanWaiters(p) THEN IdleCaller
                      ELSE DeleteEntry(callers, callers[p].target)[c]]
    /\ ret' = Ret("ensureToolAvailable", callers[p].target,
                  {callers[c].tool : c \in OrphanWaiters(p)}, Outcome(callers[p].load), <<>>)
    /\ inflightEnable' = [inflightEnable EXCEPT ![callers[p].target] = "none"]
    /\ UNCHANGED <<peers, config, out, ctl, index, pinned, now, directEnables>>

\* the steps in which a call of ensureToolAvailable or its enable goes on
EnsureSteps ==
    \/ \E c \in Callers : EnsureResume(c)
    \/ \E s \in ToolsetIds : AutoLoaderResolve(s)
    \/ \E s \in ToolsetIds : AutoLoaderReject(s)
    \/ \E s \in ToolsetIds : SettleEnable(s)
    \/ \E c \in Callers : StragglerResume(c)

\* the same for a promise that is no longer in inflightEnable
OrphanSteps ==
    \/ \E p \in Callers : OrphanLoaderResolve(p)
    \/ \E p \in Callers : OrphanLoaderReject(p)
    \/ \E p \in Callers : OrphanSettle(p)

RECURSIVE SumOver(_, _)
SumOver(f, S) ==
    IF S = {} THEN 0 ELSE LET x == CHOOSE x \in S : TRUE IN f[x] + SumOver(f, S \ {x})

\* the enableToolset calls awaiting a loader
PendingDirect == SumOver(directEnables, DOMAIN directEnables)

\* enableToolset(name), to `await loader()`
EnableToolsetCall(name) ==
    /\ IF name \notin ToolsetIds
       THEN /\ ret' = Ret("enableToolset", name, {}, "unknown", <<>>)
            /\ directEnables' = directEnables
       ELSE IF IsActive(Ctl, name)
       THEN /\ ret' = Ret("enableToolset", name, {}, "noop", <<>>)
            /\ directEnables' = directEnables
       ELSE /\ PendingDirect < MaxDirect
            /\ directEnables' = [directEnables EXCEPT ![name] = @ + 1]
            /\ ret' = NoRet
    /\ UNCHANGED <<peers, config, out, ctl, index, inflightEnable, pinned, now, callers>>

\* enableToolset(name): the loader resolves
DirectLoaderResolve(s) ==
    /\ directEnables[s] > 0
    /\ directEnables' = [directEnables EXCEPT ![s] = @ - 1]
    /\ LET r == EnableBodyOp(Ctl, s, now)
       IN /\ SetCtl(r.st)
          /\ ret' = Ret("enableToolset", s, {}, "ok", r.disabled)
    /\ UNCHANGED <<peers, config, out, index, inflightEnable, pinned, now, callers>>

\* enableToolset(name): the loader rejects
DirectLoaderReject(s) ==
    /\ directEnables[s] > 0
    /\ LoaderOf(s).flaky
    /\ directEnables' = [directEnables EXCEPT ![s] = @ - 1]
    /\ ret' = Ret("enableToolset", s, {}, "loaderError", <<>>)
    /\ UNCHANGED <<peers, config, out, ctl, index, inflightEnable, pinned, now, callers>>

\* `await enableToolset(name)` by a caller that does nothing else meanwhile:
\* the call, its loader's outcome and the rest of the body
EnableToolset(name) ==
    /\ IF name \notin ToolsetIds
       THEN /\ ret' = Ret("enableToolset", name, {}, "unknown", <<>>)
            /\ UNCHANGED ctl
       ELSE IF IsActive(Ctl, name)
       THEN /\ ret' = Ret("enableToolset", name, {}, "noop", <<>>)
            /\ UNCHANGED ctl
       ELSE \E resolves \in {TRUE} \cup {~LoaderOf(name).flaky} :
               IF resolves
               THEN LET r == EnableBodyOp(Ctl, name, now)
                    IN /\ SetCtl(r.st)
                       /\ ret' = Ret("enableToolset", name, {}, "ok", r.disabled)
               ELSE /\ ret' = Ret("enableToolset", name, {}, "loaderError", <<>>)
                    /\ UNCHANGED ctl
    /\ UNCHANGED <<peers, config, out, index, inflightEnable, pinned, now, callers, directEnables>>

DisableToolset(name) ==
    /\ SetCtl(DisableToolsetOp(Ctl, name))
    /\ ret' = NoRet
    /\ UNCHANGED <<peers, config, out, index, inflightEnable, pinned, now, callers, directEnables>>

MarkUsed(toolName) ==
    /\ SetCtl(MarkUsedOp(Ctl, toolName, now))
    /\ ret' = IF MarkUsedHits(Ctl, toolName)
              THEN Ret("markUsed", OwnerOf(Ctl, toolName), {}, "ok", <<>>)
              ELSE Ret("markUsed", NoSet, {}, "noop", <<>>)
    /\ UNCHANGED <<peers, config, out, index, inflightEnable, pinned, now, callers, directEnables>>

SweepExpiredToolsets ==
    /\ LET r == SweepExpiredOp(Ctl, now)
       IN /\ SetCtl(r.st)
          /\ ret' = Ret("sweepExpiredToolsets", NoSet, {}, "ok", r.disabled)
    /\ UNCHANGED <<peers, config, out, index, inflightEnable, pinned, now, callers, directEnables>>

EnforceLRUCap ==
    /\ LET r == EnforceLRUCapOp(Ctl)
       IN /\ SetCtl(r.st)
          /\ ret' = Ret("enforceLRUCap", NoSet, {}, "ok", r.disabled)
    /\ UNCHANGED <<peers, config, out, index, inflightEnable, pinned, now, callers, directEnables>>

PinToolset(name) ==
    /\ pinned' = pinned \cup {name}
    /\ ret' = NoRet
    /\ UNCHANGED <<peers, config, out, ctl, index, inflightEnable, now, callers, directEnables>>

UnpinToolset(name) ==
    /\ pinned' = pinned \ {name}
    /\ ret' = NoRet
    /\ UNCHANGED <<peers, config, out, ctl, index, inflightEnable, now, callers, directEnables>>

(***************************************************************************)
(* Specifications                                                          *)
(***************************************************************************)
Loader(id, tools, flaky) == [id |-> id, tools |-> tools, manifest |-> tools, flaky |-> flaky]

\* three toolsets; A and B both provide x; B's loader may fail
MainLoaders ==
    << Loader("A", << <<"f", "/", "r">>, <<"x">> >>, FALSE),
       Loader("B", << <<"x">> >>, TRUE),
       Loader("C", << <<"c">> >>, FALSE) >>

MainConfig ==
    [autoDisableTtlMs |-> 1,
     maxActiveToolsets |-> 2,
     autoEnableOnCall |-> TRUE,
     autoEnableCaseInsensitive |-> FALSE,
     autoEnableConflictResolution |-> "prefer-enabled",
     autoEnableAllowlist |-> <<>>,
     autoEnableBlocklist |-> << <<"f", "/", "*">> >>,
     taskType |-> [enabled |-> FALSE, map |-> <<>>],
     resource |-> [enabled |-> FALSE, maxTools |-> <<10>>],
     security |-> [enabled |-> FALSE, blocked |-> <<>>]]

\* the controller as its constructor leaves it
\* new InMemoryToolRepository()
RepositoryConstructed ==
    /\ repoTools = <<>>
    /\ repoCategories = <<>>
    /\ repoCapabilities = <<>>

\* new ProxyServer(config, eventBus, logger)
ProxyConstructed(cfg) ==
    /\ proxyConfig = cfg
    /\ clients = {}
    /\ backendConnections = <<>>
    /\ proxyPc = [at |-> "constructed", i |-> 0]

\* new MCPServer(config, eventBus, logger)
ServerConstructed(cfg) ==
    /\ serverConfig = cfg
    /\ serverRunning = FALSE
    /\ sweepInterval = "unset"
    /\ currentSession = <<>>
    /\ sessions = <<>>
    /\ initialized = {}
    /\ sessionsCreated = 0
    /\ liveSession = <<>>

\* new WebSocketTransport(url, logger, config)
TransportConstructed ==
    /\ wsRunning = FALSE
    /\ pendingRequests = <<>>
    /\ waiters = <<>>
    /\ requestHandler = FALSE
    /\ notificationHandler = FALSE

PeersConstructed ==
    /\ RepositoryConstructed
    /\ ProxyConstructed([backendServers |-> <<>>, requireTools |-> "undefined"])
    /\ ServerConstructed([loadBalancer |-> FALSE])
    /\ TransportConstructed

Constructed(loaders, cfg) ==
    /\ PeersConstructed
    /\ toolsetLoaders = loaders
    /\ filterConfig = cfg
    /\ activeToolsets = <<>>
    /\ loadedTools = <<>>
    /\ toolsetTools = [l \in {loaders[i].id : i \in 1..Len(loaders)} |-> <<>>]
    /\ toolNameToToolsetIndex = <<>>
    /\ manifestsLoaded = FALSE
    /\ inflightEnable = [l \in {loaders[i].id : i \in 1..Len(loaders)} |-> "none"]
    /\ toolsetLastUsed = <<>>
    /\ toolNameToActiveToolset =
           [n \in UNION {Range(loaders[i].tools) : i \in 1..Len(loaders)} |-> NoSet]
    /\ pinned = {}
    /\ now = 0
    /\ ctorBuild = 1
    /\ callers = [c \in 1..NumCallers |-> IdleCaller]
    /\ directEnables = [l \in {loaders[i].id : i \in 1..Len(loaders)} |-> 0]
    /\ ret = NoRet
    /\ out = NoOut

\* two toolsets that both provide x; B's loader may fail
AutoLoaders ==
    << Loader("A", << <<"f", "/", "r">>, <<"x">> >>, FALSE),
       Loader("B", << <<"x">>, <<"b">> >>, TRUE) >>

AutoConfig == [MainConfig EXCEPT !.maxActiveToolsets = 1]

\* two toolsets with no tool in common
DisjointLoaders ==
    << Loader("A", << <<"f", "/", "r">>, <<"x">> >>, FALSE),
       Loader("B", << <<"b">> >>, TRUE) >>

\* x may not be auto-enabled: auto-enable off, x blocklisted, x not allowlisted
GateConfigs ==
    {[AutoConfig EXCEPT !.autoEnableOnCall = FALSE, !.autoEnableBlocklist = <<>>],
     [AutoConfig EXCEPT !.autoEnableBlocklist = << <<"x">> >>],
     [AutoConfig EXCEPT !.autoEnableBlocklist = <<>>,
                        !.autoEnableAllowlist = << <<"f", "/", "*">>, <<"b">> >>]}

RECURSIVE BuildIndexFrom(_, _)
BuildIndexFrom(idx, i) ==
    IF i > Len(toolsetLoaders) THEN idx ELSE BuildIndexFrom(BuildIndexEntry(idx, i), i + 1)

\* the controller once the constructor's buildReverseIndex() has finished, for
\* up to `calls` calls of ensureToolAvailable in progress at once
ControllerBuiltFor(loaders, cfg, calls) ==
    /\ toolsetLoaders = loaders
    /\ filterConfig = cfg
    /\ activeToolsets = <<>>
    /\ loadedTools = <<>>
    /\ toolsetTools = [l \in {loaders[i].id : i \in 1..Len(loaders)} |-> <<>>]
    /\ toolNameToToolsetIndex = BuildIndexFrom(<<>>, 1)
    /\ manifestsLoaded = TRUE
    /\ inflightEnable = [l \in {loaders[i].id : i \in 1..Len(loaders)} |-> "none"]
    /\ toolsetLastUsed = <<>>
    /\ toolNameToActiveToolset =
           [n \in UNION {Range(loaders[i].tools) : i \in 1..Len(loaders)} |-> NoSet]
    /\ pinned = {}
    /\ now = 0
    /\ ctorBuild = 0
    /\ callers = [c \in 1..calls |-> IdleCaller]
    /\ directEnables = [l \in {loaders[i].id : i \in 1..Len(loaders)} |-> 0]
    /\ ret = NoRet

ControllerBuilt(loaders, cfg) == ControllerBuiltFor(loaders, cfg, NumCallers)

IndexBuilt(loaders, cfg) ==
    ControllerBuilt(loaders, cfg) /\ out = NoOut /\ PeersConstructed

Init == IndexBuilt(MainLoaders, MainConfig)

\* the controller's operations called one after the other, each awaited
Next ==
    \/ Tick
    \/ \E name \in ToolsetIds \cup {UnknownToolset} : EnableToolset(name)
    \/ \E name \in ToolsetIds \cup {UnknownToolset} : DisableToolset(name)
    \/ \E t \in RequestNames : MarkUsed(t)
    \/ SweepExpiredToolsets
    \/ EnforceLRUCap
    \/ \E name \in ToolsetIds : PinToolset(name)
    \/ \E name \in ToolsetIds : UnpinToolset(name)

Spec == Init /\ [][Next]_vars

\* auto-enable on call by concurrent callers, with disable and pin in between
InitAuto == IndexBuilt(AutoLoaders, AutoConfig)

NextAuto ==
    \/ \E c \in Callers, t \in RequestNames : EnsureCall(c, t)
    \/ EnsureSteps
    \/ \E name \in ToolsetIds : DisableToolset(name)
    \/ \E name \in ToolsetIds : PinToolset(name)
    \/ \E name \in ToolsetIds : UnpinToolset(name)

SpecAuto == InitAuto /\ [][NextAuto]_vars

\* auto-enable on call under the LRU cap: nothing is disabled but by the cap
InitAutoLRU == IndexBuilt(DisjointLoaders, AutoConfig)

NextAutoLRU ==
    \/ \E c \in Callers, t \in RequestNames : EnsureCall(c, t)
    \/ EnsureSteps
    \/ \E name \in ToolsetIds : PinToolset(name)
    \/ \E name \in ToolsetIds : UnpinToolset(name)

SpecAutoLRU == InitAutoLRU /\ [][NextAutoLRU]_vars

\* ensureToolAvailable where x may not be auto-enabled, between awaited enables and disables
InitGate == \E cfg \in GateConfigs : IndexBuilt(AutoLoaders, cfg)

NextGate ==
    \/ \E c \in Callers, t \in RequestNames : EnsureCall(c, t)
    \/ EnsureSteps
    \/ \E name \in ToolsetIds : EnableToolset(name)
    \/ \E name \in ToolsetIds : DisableToolset(name)

SpecGate == InitGate /\ [][NextGate]_vars

\* auto-enable on call, concurrent with enableToolset calls and the index build
NextMix ==
    \/ NextAuto
    \/ CtorBuildStep
    \/ \E c \in Callers : EnsureBuildStep(c)
    \/ \E name \in ToolsetIds \cup {UnknownToolset} : EnableToolsetCall(name)
    \/ \E s \in ToolsetIds : DirectLoaderResolve(s)
    \/ \E s \in ToolsetIds : DirectLoaderReject(s)

SpecMix == Constructed(AutoLoaders, AutoConfig) /\ [][NextMix]_vars

\* one call more in progress at once, all for tool b of the toolset whose loader
\* may fail
InitRace ==
    ControllerBuiltFor(AutoLoaders, AutoConfig, NumCallers + 1) /\ out = NoOut /\ PeersConstructed

NextRace ==
    \/ \E c \in Callers : EnsureCall(c, <<"b">>)
    \/ EnsureSteps
    \/ OrphanSteps

SpecRace == InitRace /\ [][NextRace]_vars

(***************************************************************************)
(* Properties of the tool gate controller                                  *)
(***************************************************************************)
Max(a, b) == IF a >= b THEN a ELSE b

ActiveSet == Range(activeToolsets)

\* the toolset recorded as provider of an active tool, NoSet if the tool is not active
ProviderOf(toolName) ==
    IF \E i \in 1..Len(loadedTools) : loadedTools[i].name = toolName
    THEN loadedTools[CHOOSE i \in 1..Len(loadedTools) : loadedTools[i].name = toolName].from
    ELSE NoSet

\* C1: every tool name is provided by at most one active toolset
C1_OwnershipUnique ==
    \A t \in ToolNames :
        Cardinality({s \in ActiveSet : t \in Range(toolsetTools[s])}) <= 1

\* C2: callers waiting for the same inactive toolset share one loader invocation
\* (exactly one of them started it), none of them returns before it settles, and
\* when it settles all of them return in that step with its one outcome
C2_WaitersShareOneLoad ==
    \A s \in ToolsetIds :
        Waiters(s) # {} =>
            /\ inflightEnable[s] # "none"
            /\ Cardinality({c \in Waiters(s) : callers[c].started}) = 1

C2_SettleStep ==
    \A s \in ToolsetIds :
        /\ \A c \in Waiters(s) :
               callers'[c].pc # "awaitEnable" =>
                   inflightEnable[s] # "none" /\ inflightEnable'[s] = "none"
        /\ (inflightEnable[s] \in {"returned", "threw"} /\ inflightEnable'[s] = "none") =>
               /\ \A c \in Waiters(s) : callers'[c].pc = "idle"
               /\ ret'.op = "ensureToolAvailable"
               /\ ret'.set = s
               /\ ret'.tools = {callers[c].tool : c \in Waiters(s)}
               /\ ret'.res = IF inflightEnable[s] = "returned" THEN "true" ELSE "loaderError"

C2_SingleLoad == [][C2_WaitersShareOneLoad' /\ C2_SettleStep]_vars

\* two callers wait for the same toolset's load
C2_Witness ==
    \E s \in ToolsetIds : Cardinality(Waiters(s)) >= 2 /\ inflightEnable[s] = "returned"

\* C3: a step of sweepExpiredToolsets, enforceLRUCap or enableToolset disables no
\* pinned toolset: every pinned active toolset is still active after it and the
\* list of disabled toolsets holds no pinned one
EvictingOps == {"sweepExpiredToolsets", "enforceLRUCap", "enableToolset"}

C3_PinSafety ==
    [][ret'.op \in EvictingOps =>
          /\ \A s \in pinned : s \in ActiveSet => s \in Range(activeToolsets')
          /\ Range(ret'.disabled) \cap pinned = {}]_vars

\* a sweep disabled a toolset while a pinned toolset, expired as well, stayed active
C3_Witness ==
    /\ ret.op = "sweepExpiredToolsets"
    /\ ret.disabled # <<>>
    /\ \E s \in pinned \cap ActiveSet : now - LastUsedOf(Ctl, s) > ttlMs

\* C4: whenever an enableToolset call returns, at most
\* max(maxActiveToolsets, pinned active toolsets) toolsets are active
C4_BoundAfterEveryEnable ==
    (ret.op = "enableToolset" /\ ret.res \in {"ok", "noop"}) =>
        Len(activeToolsets) <= Max(maxActiveToolsets, Cardinality(pinned \cap ActiveSet))

\* C5: sweepExpiredToolsets disables exactly the toolsets that are active, not
\* pinned and last used more than ttlMs ago, and returns exactly those, each once
SweepDue == {s \in ActiveSet : s \notin pinned /\ now - LastUsedOf(Ctl, s) > ttlMs}

C5_SweepExact ==
    [][ret'.op = "sweepExpiredToolsets" =>
          /\ Range(ret'.disabled) = SweepDue
          /\ Len(ret'.disabled) = Cardinality(SweepDue)
          /\ Range(activeToolsets') = ActiveSet \ SweepDue
          /\ LoadedNames(Ctl') \subseteq
                 {n \in LoadedNames(Ctl) : ProviderOf(n) \notin SweepDue}]_vars

\* a sweep disabled one toolset and left another, not pinned, used exactly ttlMs ago
C5_Witness ==
    /\ ret.op = "sweepExpiredToolsets"
    /\ ret.disabled # <<>>
    /\ \E s \in ActiveSet \ pinned : now - LastUsedOf(Ctl, s) = ttlMs

\* C6: a toolset used by the operation just before an eviction is more recently
\* used than all others, so the eviction disables it only if it disables every
\* other toolset that was active and not pinned
C6_EvictsLeastRecentlyUsed ==
    [][(/\ ret.op = "markUsed"
        /\ ret.res = "ok"
        /\ ret'.op \in {"enableToolset", "enforceLRUCap"}
        /\ ret.set \in Range(ret'.disabled))
          => \A u \in ActiveSet \ pinned : u \in Range(ret'.disabled)]_vars

\* C7: markUsed(toolName) sets the last-used time of the active toolset providing
\* toolName to the current time and changes nothing else; for a name no active
\* toolset provides it changes nothing; a sweep disables no toolset used within ttlMs
C7_MarkUsedRefreshes ==
    [][/\ \A t \in RequestNames :
              MarkUsed(t) =>
                  IF ProviderOf(t) # NoSet
                  THEN /\ LastUsedOf(Ctl', ProviderOf(t)) = now
                       /\ \A s \in ActiveSet \ {ProviderOf(t)} :
                              LastUsedOf(Ctl', s) = LastUsedOf(Ctl, s)
                       /\ UNCHANGED <<activeToolsets, loadedTools, toolNameToActiveToolset>>
                  ELSE UNCHANGED ctl
       /\ ret'.op = "sweepExpiredToolsets" =>
              \A s \in ActiveSet :
                  now - LastUsedOf(Ctl, s) <= ttlMs => s \in Range(activeToolsets')]_vars

\* markUsed refreshed a toolset activated earlier, while another one has expired
C7_Witness ==
    /\ ret.op = "markUsed"
    /\ ret.res = "ok"
    /\ now > 0
    /\ LastUsedOf(Ctl, ret.set) = now
    /\ \E s \in ActiveSet \ {ret.set} : now - LastUsedOf(Ctl, s) > ttlMs

\* C8: an enableToolset call whose loader returns a tool name already provided by
\* another active toolset fails with a collision error and leaves the active
\* tools, the active set, the ownership and the usage table as they were
Collides(name) ==
    \E n \in Range(LoaderOf(name).tools) : ProviderOf(n) \notin {NoSet, name}

C8_CollisionRejected ==
    [][\A name \in ToolsetIds :
          (/\ ret'.op = "enableToolset"
           /\ ret'.set = name
           /\ ret'.res # "loaderError"
           /\ name \notin ActiveSet
           /\ Collides(name))
             => /\ ret'.res = "collision"
                /\ UNCHANGED <<loadedTools, activeToolsets, toolNameToActiveToolset,
                               toolsetLastUsed>>]_vars

\* C9: when ensureToolAvailable returns true, the tool asked for is an active tool
C9_TrueMeansActive ==
    (ret.op = "ensureToolAvailable" /\ ret.res = "true") =>
        \A t \in ret.tools : AlreadyLoaded(t)

\* C10: for a tool that is not active and that the configuration keeps from being
\* auto-enabled, ensureToolAvailable returns false and starts no load
GateClosed(toolName) ==
    \/ ~filterConfig.autoEnableOnCall
    \/ \E i \in 1..Len(filterConfig.autoEnableBlocklist) :
           matchesPattern(toolName, filterConfig.autoEnableBlocklist[i])
    \/ /\ filterConfig.autoEnableAllowlist # <<>>
       /\ \A i \in 1..Len(filterConfig.autoEnableAllowlist) :
              ~matchesPattern(toolName, filterConfig.autoEnableAllowlist[i])

C10_GateDenies ==
    [][\A c \in Callers :
          (/\ EnsureResume(c)
           /\ ~AlreadyLoaded(callers[c].tool)
           /\ GateClosed(callers[c].tool))
             => /\ ret'.op = "ensureToolAvailable"
                /\ ret'.res = "false"
                /\ UNCHANGED <<inflightEnable, ctl>>]_vars

\* C11: when the loader of an auto-enable fails, every waiting ensureToolAvailable
\* call returns false (tool not available) and not the loader's exception, the
\* toolset is left inactive, and no in-flight entry is left to block a later load
C11_LoaderFailureIsNotFound ==
    [][\A s \in ToolsetIds :
          (inflightEnable[s] = "threw" /\ inflightEnable'[s] = "none")
             => /\ ret'.op = "ensureToolAvailable"
                /\ ret'.res = "false"
                /\ s \notin Range(activeToolsets')
                /\ ~HasInflight(s)']_vars

(***************************************************************************)
(* Filters: TaskTypeFilter, ResourceFilter, SecurityFilter and the chain   *)
(* of getAvailableTools.  A tool map is the sequence of its keys in        *)
(* iteration order; the filters never touch the descriptors.  A config     *)
(* value that may be absent is a sequence: <<>> when absent, <<v>> if set. *)
(***************************************************************************)
MaxMapLen == 3

\* context.taskType undefined
NoType == ""

Contexts == {[taskType |-> NoType], [taskType |-> "T1"], [taskType |-> "T2"]}

\* the tool maps given to a filter: keys are distinct
ToolMaps ==
    {t \in UNION {[1..n -> RequestNames] : n \in 0..MaxMapLen} :
        \A i, j \in 1..Len(t) : i # j => t[i] # t[j]}

\* this.config.map?.[type]: <<>> when there is no entry, <<allowed>> when there is one
TaskTypeEntry(cfg, type) ==
    IF \E i \in 1..Len(cfg.map) : cfg.map[i].type = type
    THEN << cfg.map[CHOOSE i \in 1..Len(cfg.map) : cfg.map[i].type = type].allowed >>
    ELSE <<>>

\* result[name] = tools[name] for each name in turn: a key keeps its first position
RECURSIVE InsertKeys(_, _)
InsertKeys(result, names) ==
    IF names = <<>> THEN result
    ELSE InsertKeys(IF Head(names) \in Range(result) THEN result
                    ELSE Append(result, Head(names)),
                    Tail(names))

TaskTypeFilterApply(cfg, tools, context) ==
    IF context.taskType = NoType THEN tools
    ELSE LET entry == TaskTypeEntry(cfg, context.taskType)
         IN IF entry = <<>> \/ Len(entry[1]) = 0 THEN tools
            ELSE InsertKeys(<<>>, SelectSeq(entry[1], LAMBDA n : n \in Range(tools)))

\* Array.prototype.slice(0, end)
SliceTo(seq, end) ==
    SubSeq(seq, 1, IF end < 0
                   THEN (IF Len(seq) + end > 0 THEN Len(seq) + end ELSE 0)
                   ELSE Min(end, Len(seq)))

ResourceFilterApply(cfg, tools) ==
    IF cfg.maxTools = <<>> THEN tools
    ELSE LET max == cfg.maxTools[1]
         IN IF max = 0 \/ Len(tools) <= max THEN tools
            ELSE SliceTo(tools, max)

\* a security filter that deletes nothing
SecurityFilterKeepsAll(cfg, tools) == tools

SecurityFilterApply(cfg, tools) ==
    IF Len(cfg.blocked) = 0 THEN tools
    ELSE SelectSeq(tools, LAMBDA n : n \notin Range(cfg.blocked))

\* this.filters as the constructor fills it
Filters ==
    (IF filterConfig.taskType.enabled THEN <<"taskType">> ELSE <<>>)
    \o (IF filterConfig.resource.enabled THEN <<"resource">> ELSE <<>>)
    \o (IF filterConfig.security.enabled THEN <<"security">> ELSE <<>>)

FilterApply(kind, tools, context) ==
    CASE kind = "taskType" -> TaskTypeFilterApply(filterConfig.taskType, tools, context)
      [] kind = "resource" -> ResourceFilterApply(filterConfig.resource, tools)
      [] kind = "security" -> SecurityFilterApply(filterConfig.security, tools)

\* for (const filter of this.filters) tools = filter.apply(tools, context)
RECURSIVE FilterChain(_, _, _)
FilterChain(filters, tools, context) ==
    IF filters = <<>> THEN tools
    ELSE FilterChain(Tail(filters), FilterApply(Head(filters), tools, context), context)

\* { ...this.loadedTools }
LoadedToolMap == [i \in 1..Len(loadedTools) |-> loadedTools[i].name]

Call(op, tools, context, res) ==
    [op |-> op, tools |-> tools, context |-> context, res |-> res]

GetAvailableTools(context) ==
    /\ out' = Call("getAvailableTools", LoadedToolMap, context,
                   FilterChain(Filters, LoadedToolMap, context))
    /\ UNCHANGED <<peers, config, ctl, index, inflightEnable, pinned, now, callers, directEnables,
                   ret>>

\* the chain of getAvailableTools on any tool map
FilterChainCall(tools, context) ==
    /\ out' = Call("filterChain", tools, context, FilterChain(Filters, tools, context))
    /\ UNCHANGED <<peers, config, ctl, index, inflightEnable, pinned, now, callers, directEnables,
                   ret>>

TaskTypeFilterCall(tools, context) ==
    /\ out' = Call("taskType", tools, context,
                   TaskTypeFilterApply(filterConfig.taskType, tools, context))
    /\ UNCHANGED <<peers, config, ctl, index, inflightEnable, pinned, now, callers, directEnables,
                   ret>>

ResourceFilterCall(tools, context) ==
    /\ out' = Call("resource", tools, context,
                   ResourceFilterApply(filterConfig.resource, tools))
    /\ UNCHANGED <<peers, config, ctl, index, inflightEnable, pinned, now, callers, directEnables,
                   ret>>

SecurityFilterCall(tools, context) ==
    /\ out' = Call("security", tools, context,
                   SecurityFilterApply(filterConfig.security, tools))
    /\ UNCHANGED <<peers, config, ctl, index, inflightEnable, pinned, now, callers, directEnables,
                   ret>>

FilterSetup(taskOn, map, resourceOn, maxTools, securityOn, blocked) ==
    [MainConfig EXCEPT !.taskType = [enabled |-> taskOn, map |-> map],
                       !.resource = [enabled |-> resourceOn, maxTools |-> maxTools],
                       !.security = [enabled |-> securityOn, blocked |-> blocked]]

FilterConfigs ==
    {FilterSetup(TRUE, << [type |-> "T1", allowed |-> << <<"x">>, <<"f", "/", "r">> >>] >>,
                 TRUE, <<2>>, TRUE, << <<"x">> >>),
     FilterSetup(TRUE, << [type |-> "T1", allowed |-> <<>>] >>,
                 TRUE, <<0>>, TRUE, << <<"c">>, <<"z">> >>),
     FilterSetup(TRUE, << [type |-> "T1", allowed |-> << <<"x">>, <<"c">> >>] >>,
                 TRUE, <<-1>>, TRUE, << <<"x">> >>),
     FilterSetup(FALSE, <<>>, TRUE, <<1>>, TRUE, << <<"f", "/", "r">> >>),
     FilterSetup(TRUE, << [type |-> "T1", allowed |-> << <<"c">>, <<"c">>, <<"x">> >>] >>,
                 FALSE, <<>>, FALSE, << <<"x">> >>),
     FilterSetup(TRUE, << [type |-> "T1", allowed |-> << <<"f", "/", "r">>, <<"c">> >>] >>,
                 TRUE, <<>>, TRUE, <<>>)}

InitFilter == \E cfg \in FilterConfigs : IndexBuilt(MainLoaders, cfg)

\* getAvailableTools between awaited enables and disables
NextAvail ==
    \/ \E name \in ToolsetIds : EnableToolset(name)
    \/ \E name \in ToolsetIds : DisableToolset(name)
    \/ \E context \in Contexts : GetAvailableTools(context)

SpecAvail == InitFilter /\ [][NextAvail]_vars

\* the filters and their chain on any tool map
NextFilter ==
    \/ \E tools \in ToolMaps, context \in Contexts : FilterChainCall(tools, context)
    \/ \E tools \in ToolMaps, context \in Contexts : TaskTypeFilterCall(tools, context)
    \/ \E tools \in ToolMaps, context \in Contexts : ResourceFilterCall(tools, context)
    \/ \E tools \in ToolMaps, context \in Contexts : SecurityFilterCall(tools, context)

SpecFilter == InitFilter /\ [][NextFilter]_vars

\* C12: with the security filter enabled, getAvailableTools returns no tool whose
\* name is in the blocked list, in every controller state and for every context
C12_NoBlockedToolAvailable ==
    (out.op = "getAvailableTools" /\ filterConfig.security.enabled) =>
        Range(out.res) \cap Range(filterConfig.security.blocked) = {}

\* a blocked tool is in the active map and getAvailableTools returned the others
C12_Witness ==
    /\ out.op = "getAvailableTools"
    /\ filterConfig.security.enabled
    /\ out.tools = LoadedToolMap
    /\ Range(out.tools) \cap Range(filterConfig.security.blocked) # {}
    /\ out.res # <<>>

\* C13: the chain TaskType, Resource, Security applied to its own output returns it
C13_ChainIdempotent ==
    (out.op = "filterChain" /\ Len(Filters) = 3) =>
        FilterChain(Filters, out.res, out.context) = out.res

\* C14: with a map entry for context.taskType the TaskType filter returns the input
\* tools named in the entry, in the input's order; with no taskType or no entry
\* it returns the input
C14_TaskTypeIntersection ==
    out.op = "taskType" =>
        LET entry == TaskTypeEntry(filterConfig.taskType, out.context.taskType)
        IN IF out.context.taskType # NoType /\ entry # <<>>
           THEN out.res = SelectSeq(out.tools, LAMBDA n : n \in Range(entry[1]))
           ELSE out.res = out.tools

\* C15: the Resource filter returns the first maxTools entries when maxTools > 0,
\* every entry when maxTools is absent, and none when maxTools is set and <= 0
C15_ResourceTruncates ==
    out.op = "resource" =>
        LET maxTools == filterConfig.resource.maxTools
        IN out.res = IF maxTools = <<>> THEN out.tools
                     ELSE IF maxTools[1] > 0
                          THEN SubSeq(out.tools, 1, Min(maxTools[1], Len(out.tools)))
                          ELSE <<>>

(***************************************************************************)
(* Schema optimizer.  A JSON value is [kind, value]: a string holds its    *)
(* characters, an array its items, an object its entries [key, value] in   *)
(* key order; a tool's description is <<>> when absent, <<string>> if set. *)
(***************************************************************************)
MAX_DESCRIPTION_LENGTH == 50

MaxDepth == 3

StringOf(n) == [i \in 1..n |-> "d"]

JString(str) == [kind |-> "string", value |-> str]
JNumber(n) == [kind |-> "number", value |-> n]
JArray(items) == [kind |-> "array", value |-> items]
JObject(entries) == [kind |-> "object", value |-> entries]
Entry(key, value) == [key |-> key, value |-> value]

\* a description that keeps its length
truncateDescriptionKeep(description) == description

truncateDescription(description) ==
    IF Len(description) > MAX_DESCRIPTION_LENGTH
    THEN SubSeq(description, 1, MAX_DESCRIPTION_LENGTH)
    ELSE description

RECURSIVE optimizeSchema(_)
optimizeSchema(schema) ==
    CASE schema.kind = "array" ->
            JArray([i \in 1..Len(schema.value) |-> optimizeSchema(schema.value[i])])
      [] schema.kind = "object" ->
            LET kept == SelectSeq(schema.value,
                                  LAMBDA e : e.key \notin {"examples", "default"})
            IN JObject([i \in 1..Len(kept) |->
                   IF kept[i].key = "description" /\ kept[i].value.kind = "string"
                   THEN Entry("description",
                              JString(truncateDescription(kept[i].value.value)))
                   ELSE Entry(kept[i].key, optimizeSchema(kept[i].value))])
      [] OTHER -> schema

\* description = '' is the default of truncateDescription's parameter
optimizeTool(tool) ==
    [name |-> tool.name,
     description |-> << truncateDescription(IF tool.description = <<>> THEN <<>>
                                            ELSE tool.description[1]) >>,
     inputSchema |-> optimizeSchema(tool.inputSchema)]

\* the schemas given to the optimizer, nested up to a depth
SchemaLeaves ==
    {JString(StringOf(n)) : n \in {3, MAX_DESCRIPTION_LENGTH, MAX_DESCRIPTION_LENGTH + 1}}
    \cup {JNumber(1)}

SchemaKeys == {"description", "default", "examples", "items"}

RECURSIVE Schemas(_)
Schemas(depth) ==
    IF depth = 0 THEN SchemaLeaves
    ELSE LET inner == Schemas(depth - 1)
         IN SchemaLeaves
            \cup {JArray(<<v>>) : v \in inner}
            \cup {JObject(<<Entry(k, v)>>) : k \in SchemaKeys, v \in inner}
            \cup {JObject(<<Entry("description",
                                  JString(StringOf(MAX_DESCRIPTION_LENGTH + 1))),
                            Entry(k, v)>>) :
                     k \in SchemaKeys \ {"description"}, v \in inner}

OptimizerTools ==
    {[name |-> <<"x">>, description |-> d, inputSchema |-> schema] :
        d \in {<<>>, <<StringOf(MAX_DESCRIPTION_LENGTH)>>,
               <<StringOf(MAX_DESCRIPTION_LENGTH + 1)>>},
        schema \in Schemas(MaxDepth)}

Args(tool) == [op |-> "args", tool |-> tool]

OptimizeToolCall ==
    /\ out.op = "args"
    /\ out' = [op |-> "optimizeTool", tool |-> out.tool, res |-> optimizeTool(out.tool)]
    /\ UNCHANGED <<peers, config, ctl, index, inflightEnable, pinned, now, callers, directEnables,
                   ret>>

\* enableToolset: Object.entries(tools).map(([n, t]) => [n, optimizeTool(t)]), one entry
EnableToolsetOptimize ==
    /\ out.op = "args"
    /\ out' = [op |-> "enableToolset", tool |-> out.tool, res |-> optimizeTool(out.tool)]
    /\ UNCHANGED <<peers, config, ctl, index, inflightEnable, pinned, now, callers, directEnables,
                   ret>>

\* a call about to be made with arguments from a set, the controller left alone
WithArgs(args) ==
    ControllerBuilt(MainLoaders, MainConfig) /\ out \in args /\ PeersConstructed

InitOptimizer == WithArgs({Args(tool) : tool \in OptimizerTools})

NextOptimizer == OptimizeToolCall \/ EnableToolsetOptimize

SpecOptimizer == InitOptimizer /\ [][NextOptimizer]_vars

\* no key default or examples and no string description longer than
\* MAX_DESCRIPTION_LENGTH in the node or below it
RECURSIVE SchemaIsLean(_)
SchemaIsLean(node) ==
    CASE node.kind = "array" ->
            \A i \in 1..Len(node.value) : SchemaIsLean(node.value[i])
      [] node.kind = "object" ->
            \A i \in 1..Len(node.value) :
                LET e == node.value[i]
                IN /\ e.key \notin {"default", "examples"}
                   /\ (e.key = "description" /\ e.value.kind = "string") =>
                          Len(e.value.value) <= MAX_DESCRIPTION_LENGTH
                   /\ SchemaIsLean(e.value)
      [] OTHER -> TRUE

\* C16: a tool produced by the schema optimizer (and so a tool stored by
\* enableToolset) has no key default or examples at any depth of its schema,
\* arrays included, and no string description longer than 50, its own included
C16_OptimizedToolIsLean ==
    out.op \in {"optimizeTool", "enableToolset"} =>
        /\ Len(out.res.description[1]) <= MAX_DESCRIPTION_LENGTH
        /\ SchemaIsLean(out.res.inputSchema)

\* the optimizer was given a tool with a description of 51 characters and a
\* schema with default or examples or a long description below an array
C16_Witness ==
    /\ out.op = "enableToolset"
    /\ out.tool.description # <<>>
    /\ Len(out.tool.description[1]) > MAX_DESCRIPTION_LENGTH
    /\ out.tool.inputSchema.kind = "object"
    /\ \E i \in 1..Len(out.tool.inputSchema.value) :
           /\ out.tool.inputSchema.value[i].value.kind = "array"
           /\ ~SchemaIsLean(out.tool.inputSchema.value[i].value)

(***************************************************************************)
(* Discovery and provisioning (DiscoveryService, GatingService).  A number *)
(* is [finite, halves]: the value halves/2 when finite, so that limits and *)
(* budgets between two integers are covered; Infinity and NaN are not      *)
(* finite.  A tool carries the length of its JSON text in json.            *)
(***************************************************************************)
DEFAULT_LIMIT == 10

MaxTools == 3

Num(halves) == [finite |-> TRUE, halves |-> halves]
NonFinite == [finite |-> FALSE]

\* String.prototype.trim
RECURSIVE TrimStart(_)
TrimStart(str) ==
    IF str # <<>> /\ Head(str) \in {" ", "\t"} THEN TrimStart(Tail(str)) ELSE str

RECURSIVE TrimEnd(_)
TrimEnd(str) ==
    IF str # <<>> /\ str[Len(str)] \in {" ", "\t"}
    THEN TrimEnd(SubSeq(str, 1, Len(str) - 1))
    ELSE str

Trim(str) == TrimEnd(TrimStart(str))

\* String.prototype.includes
Includes(str, search) ==
    \E i \in 0..(Len(str) - Len(search)) : SubSeq(str, i + 1, i + Len(search)) = search

\* [name, description, ...categories, ...capabilities].filter(Boolean)
SearchFields(tool) ==
    {field \in {tool.name, tool.description} \cup Range(tool.categories)
               \cup Range(tool.capabilities) : field # <<>>}

\* limit is <<>> when the option is absent
discoverTools(allTools, query, limit) ==
    LET lim == IF limit = <<>> THEN Num(2 * DEFAULT_LIMIT) ELSE limit[1]
        queryLower == ToLowerCase(Trim(query))
        filteredTools ==
            SelectSeq(allTools,
                      LAMBDA tool : \E field \in SearchFields(tool) :
                                        Includes(ToLowerCase(field), queryLower))
        safeLimit == IF lim.finite /\ lim.halves > 0 THEN lim.halves \div 2
                     ELSE DEFAULT_LIMIT
    IN SubSeq(filteredTools, 1, Min(safeLimit, Len(filteredTools)))

\* Math.max(1, Math.ceil(JSON.stringify(tool).length / 4))
ToolTokens(tool) ==
    LET ceil == (tool.json + 3) \div 4
    IN IF ceil >= 1 THEN ceil ELSE 1

\* a test that lets every tool in
ProvisionFitsAlways(currentTokens, toolTokens, maxTokens) == TRUE

\* currentTokens + toolTokens <= maxTokens
ProvisionFits(currentTokens, toolTokens, maxTokens) ==
    2 * (currentTokens + toolTokens) <= maxTokens.halves

RECURSIVE ProvisionFrom(_, _, _, _)
ProvisionFrom(provisionedTools, currentTokens, tools, maxTokens) ==
    IF tools = <<>> THEN provisionedTools
    ELSE LET tool == Head(tools)
             toolTokens == ToolTokens(tool)
         IN IF 2 * toolTokens > maxTokens.halves
            THEN ProvisionFrom(provisionedTools, currentTokens, Tail(tools), maxTokens)
            ELSE IF ProvisionFits(currentTokens, toolTokens, maxTokens)
                 THEN ProvisionFrom(Append(provisionedTools, tool),
                                    currentTokens + toolTokens, Tail(tools), maxTokens)
                 ELSE provisionedTools

provisionTools(tools, maxTokens) ==
    IF ~maxTokens.finite \/ maxTokens.halves <= 0 THEN <<>>
    ELSE ProvisionFrom(<<>>, 0, tools, maxTokens)

\* GatingService.provisionTools
GatingProvisionTools(allTools, query, maxTokens) ==
    provisionTools(discoverTools(allTools, query, <<>>), maxTokens)

Tool(name, description, categories, capabilities, json) ==
    [name |-> name, description |-> description, categories |-> categories,
     capabilities |-> capabilities, json |-> json]

RepositoryTools ==
    {Tool(<<"f", "/", "r">>, <<"R", "x">>, << <<"c">> >>, <<>>, 20),
     Tool(<<"x">>, <<>>, <<>>, << <<"F">> >>, 12),
     Tool(<<"c">>, <<"b">>, <<>>, <<>>, 24)}

ProvisionedTools ==
    RepositoryTools
    \cup {Tool(<<"b">>, <<>>, <<>>, <<>>, 13), Tool(<<"z">>, <<>>, <<>>, <<>>, 2)}

\* lists of distinct tools
ToolLists(S) ==
    {t \in UNION {[1..n -> S] : n \in 0..MaxTools} :
        \A i, j \in 1..Len(t) : i # j => t[i] # t[j]}

Queries == {<<>>, <<" ">>, <<" ", "\t">>, <<"r">>, <<"R", " ">>, <<"q">>, <<"c">>, <<"f">>}

Limits == {<<>>} \cup {<<Num(h)>> : h \in -2..4} \cup {<<NonFinite>>}

Budgets == {Num(h) : h \in {-2, 0, 5, 8, 16, 20, 24}} \cup {NonFinite}

DiscoverArgs ==
    {[op |-> "args", for |-> "discoverTools", allTools |-> r, query |-> q, limit |-> l] :
        r \in ToolLists(RepositoryTools), q \in Queries, l \in Limits}

ProvisionArgs ==
    {[op |-> "args", for |-> "provisionTools", tools |-> t, maxTokens |-> b] :
        t \in ToolLists(ProvisionedTools), b \in Budgets}

\* a repository in which one more tool than the default limit matches the query "r"
ManyTools ==
    [i \in 1..(DEFAULT_LIMIT + 1) |->
        Tool([j \in 1..(i + 1) |-> "r"], <<>>, <<>>, <<>>, 4)]

GatingArgs ==
    {[op |-> "args", for |-> "GatingService.provisionTools",
      allTools |-> r, query |-> q, maxTokens |-> b] :
        r \in ToolLists(RepositoryTools) \cup {ManyTools}, q \in Queries, b \in Budgets}

DiscoverToolsCall ==
    /\ out.op = "args" /\ out.for = "discoverTools"
    /\ out' = [out EXCEPT !.op = "discoverTools"]
              @@ [res |-> discoverTools(out.allTools, out.query, out.limit)]
    /\ UNCHANGED <<peers, config, ctl, index, inflightEnable, pinned, now, callers, directEnables,
                   ret>>

ProvisionToolsCall ==
    /\ out.op = "args" /\ out.for = "provisionTools"
    /\ out' = [out EXCEPT !.op = "provisionTools"]
              @@ [res |-> provisionTools(out.tools, out.maxTokens)]
    /\ UNCHANGED <<peers, config, ctl, index, inflightEnable, pinned, now, callers, directEnables,
                   ret>>

GatingProvisionToolsCall ==
    /\ out.op = "args" /\ out.for = "GatingService.provisionTools"
    /\ out' = [out EXCEPT !.op = "GatingService.provisionTools"]
              @@ [res |-> GatingProvisionTools(out.allTools, out.query, out.maxTokens)]
    /\ UNCHANGED <<peers, config, ctl, index, inflightEnable, pinned, now, callers, directEnables,
                   ret>>

InitDiscovery == WithArgs(DiscoverArgs \cup ProvisionArgs \cup GatingArgs)

NextDiscovery == DiscoverToolsCall \/ ProvisionToolsCall \/ GatingProvisionToolsCall

SpecDiscovery == InitDiscovery /\ [][NextDiscovery]_vars

\* the estimate max(1, ceil(len(JSON(tool)) / 4)), from its definition
EstTokens(tool) ==
    Max(1, CHOOSE k \in 0..tool.json : 4 * k >= tool.json /\ 4 * (k - 1) < tool.json)

RECURSIVE SumTokens(_)
SumTokens(tools) ==
    IF tools = <<>> THEN 0 ELSE EstTokens(Head(tools)) + SumTokens(Tail(tools))

RECURSIVE FirstFit(_, _, _, _)
FirstFit(taken, sum, tools, maxHalves) ==
    IF tools = <<>> THEN taken
    ELSE IF 2 * (sum + EstTokens(Head(tools))) <= maxHalves
         THEN FirstFit(Append(taken, Head(tools)), sum + EstTokens(Head(tools)),
                       Tail(tools), maxHalves)
         ELSE FirstFit(taken, sum, Tail(tools), maxHalves)

\* C18: provisioning is first fit without early exit: a tool that does not fit
\* never keeps a later tool that fits the leftover budget from being included
C18_FirstFitNoEarlyExit ==
    (out.op = "provisionTools" /\ out.maxTokens.finite /\ out.maxTokens.halves > 0) =>
        out.res = FirstFit(<<>>, 0, out.tools, out.maxTokens.halves)

\* C19: discover and GatingService.provision return an empty list for an empty or
\* whitespace-only query, whatever the repository holds
C19_EmptyQueryEmptyResult ==
    (/\ out.op \in {"discoverTools", "GatingService.provisionTools"}
     /\ \A i \in 1..Len(out.query) : out.query[i] \in {" ", "\t"})
        => out.res = <<>>

\* C20: discover returns at most floor(limit) tools, and none when limit <= 0
C20_LimitRespected ==
    (out.op = "discoverTools" /\ out.limit # <<>> /\ out.limit[1].finite) =>
        IF out.limit[1].halves <= 0 THEN out.res = <<>>
        ELSE 2 * Len(out.res) <= out.limit[1].halves

\* the score of section 4.5: exact name match +100, name substring +50,
\* description substring +25, any category substring +10
Score(tool, queryLower) ==
    (IF ToLowerCase(tool.name) = queryLower THEN 100 ELSE 0)
    + (IF Includes(ToLowerCase(tool.name), queryLower) THEN 50 ELSE 0)
    + (IF Includes(ToLowerCase(tool.description), queryLower) THEN 25 ELSE 0)
    + (IF \E i \in 1..Len(tool.categories) :
              Includes(ToLowerCase(tool.categories[i]), queryLower)
       THEN 10 ELSE 0)

\* a stable sort by score, highest first
RECURSIVE SortByScore(_, _)
SortByScore(tools, queryLower) ==
    IF tools = <<>> THEN <<>>
    ELSE LET best == CHOOSE i \in 1..Len(tools) :
                         /\ \A j \in 1..Len(tools) :
                                Score(tools[j], queryLower) <= Score(tools[i], queryLower)
                         /\ \A j \in 1..(i - 1) :
                                Score(tools[j], queryLower) < Score(tools[i], queryLower)
         IN <<tools[best]>>
            \o SortByScore(SubSeq(tools, 1, best - 1) \o SubSeq(tools, best + 1, Len(tools)),
                           queryLower)

Ranked(tools, queryLower) ==
    SortByScore(SelectSeq(tools, LAMBDA tool : Score(tool, queryLower) > 0), queryLower)

\* C21: for a non-empty query and no truncation, discover returns exactly the tools
\* whose score is greater than 0, ordered by score descending, ties in repository
\* iteration order
C21_RankedByScore ==
    (/\ out.op = "discoverTools"
     /\ Trim(out.query) # <<>>
     /\ out.limit = <<>>)
        => out.res = Ranked(out.allTools, ToLowerCase(Trim(out.query)))

\* C22: GatingService.provision returns provision(discover({query, limit = infinity}),
\* maxTokens): every tool that matches the query is considered for the budget,
\* however many tools match
C22_EveryMatchConsidered ==
    out.op = "GatingService.provisionTools" =>
        out.res = provisionTools(
                      discoverTools(out.allTools, out.query,
                                    <<Num(2 * Max(1, Len(out.allTools)))>>),
                      out.maxTokens)

(***************************************************************************)
(* InMemoryToolRepository                                                  *)
(***************************************************************************)
\* the index lists grow with every addTool: the longest list the model builds
MaxIndexLen == 2

controller == <<config, ctl, index, inflightEnable, pinned, now, callers, directEnables, ret>>

\* Map.prototype.get on the name index, <<>> for undefined
GetTool(name) ==
    SelectSeq(repoTools, LAMBDA tool : tool.name = name)

\* Map.prototype.set: a known key keeps its place
SetTool(stored, tool) ==
    IF \E i \in 1..Len(stored) : stored[i].name = tool.name
    THEN [i \in 1..Len(stored) |->
              IF stored[i].name = tool.name THEN tool ELSE stored[i]]
    ELSE Append(stored, tool)

\* if (!map.has(key)) map.set(key, []); map.get(key).push(name), for each key
RECURSIVE PushName(_, _, _)
PushName(map, keys, name) ==
    IF keys = <<>> THEN map
    ELSE PushName(IF Head(keys) \in DOMAIN map
                  THEN [map EXCEPT ![Head(keys)] = Append(@, name)]
                  ELSE map @@ (Head(keys) :> <<name>>),
                  Tail(keys), name)

\* toolNames.map(name => this.getTool(name)).filter(Boolean)
ToolsNamed(toolNames) ==
    IF toolNames = <<>> THEN <<>>
    ELSE LET found == [i \in 1..Len(toolNames) |-> GetTool(toolNames[i])]
             RECURSIVE Flat(_)
             Flat(i) == IF i > Len(found) THEN <<>> ELSE found[i] \o Flat(i + 1)
         IN Flat(1)

getToolsByCategory(category) ==
    ToolsNamed(IF category \in DOMAIN repoCategories THEN repoCategories[category]
               ELSE <<>>)

getToolsByCapability(capability) ==
    ToolsNamed(IF capability \in DOMAIN repoCapabilities
               THEN repoCapabilities[capability] ELSE <<>>)

\* the index lists stay within the bound of the model
IndexRoom(map, keys) ==
    \A i \in 1..Len(keys) :
        keys[i] \in DOMAIN map => Len(map[keys[i]]) < MaxIndexLen

Repo == [tools |-> repoTools, categories |-> repoCategories,
         capabilities |-> repoCapabilities]

SetRepo(repo) ==
    /\ repoTools' = repo.tools
    /\ repoCategories' = repo.categories
    /\ repoCapabilities' = repo.capabilities

\* the repository after addTool, and how the call ended
addTool(repo, tool) ==
    IF tool.name = <<>>
    THEN [repo |-> repo, res |-> "Tool must have a name"]
    ELSE [repo |-> [tools |-> SetTool(repo.tools, tool),
                    categories |-> PushName(repo.categories, tool.categories, tool.name),
                    capabilities |-> PushName(repo.capabilities, tool.capabilities,
                                              tool.name)],
          res |-> "ok"]

AddTool(tool) ==
    /\ IndexRoom(repoCategories, tool.categories)
    /\ IndexRoom(repoCapabilities, tool.capabilities)
    /\ SetRepo(addTool(Repo, tool).repo)
    /\ out' = [op |-> "addTool", tool |-> tool, res |-> addTool(Repo, tool).res]
    /\ UNCHANGED <<controller, proxy, server, transport>>

\* the index values are arrays: set?.delete(name) on a list that exists is a call of
\* undefined, a TypeError raised before this.tools.delete(name)
RemoveTool(name) ==
    LET existing == GetTool(name)
        indexed(map, keys) == \E i \in 1..Len(keys) : keys[i] \in DOMAIN map
    IN /\ IF existing = <<>>
          THEN /\ out' = [op |-> "removeTool", name |-> name, res |-> "false"]
               /\ UNCHANGED repository
          ELSE IF \/ indexed(repoCategories, existing[1].categories)
                  \/ indexed(repoCapabilities, existing[1].capabilities)
               THEN /\ out' = [op |-> "removeTool", name |-> name, res |-> "TypeError"]
                    /\ UNCHANGED repository
               ELSE /\ repoTools' = SelectSeq(repoTools, LAMBDA tool : tool.name # name)
                    /\ out' = [op |-> "removeTool", name |-> name, res |-> "true"]
                    /\ UNCHANGED <<repoCategories, repoCapabilities>>
       /\ UNCHANGED <<controller, proxy, server, transport>>

ClearRepository ==
    /\ repoTools' = <<>>
    /\ repoCategories' = <<>>
    /\ repoCapabilities' = <<>>
    /\ out' = [op |-> "clearRepository", res |-> "ok"]
    /\ UNCHANGED <<controller, proxy, server, transport>>

GetToolsByCategory(category) ==
    /\ out' = [op |-> "getToolsByCategory", key |-> category,
               res |-> getToolsByCategory(category)]
    /\ UNCHANGED <<controller, peers>>

GetToolsByCapability(capability) ==
    /\ out' = [op |-> "getToolsByCapability", key |-> capability,
               res |-> getToolsByCapability(capability)]
    /\ UNCHANGED <<controller, peers>>

RepoNames == {<<"a">>, <<"b">>}
RepoCategoryNames == {<<"p">>, <<"q">>}
RepoCapabilityNames == {<<"k">>}

\* the tools handed to addTool, one of them without a name
RepoToolInputs ==
    {Tool(name, <<>>, categories, capabilities, 4) :
        name \in RepoNames \cup {<<>>},
        categories \in {<<>>, << <<"p">> >>, << <<"q">> >>, << <<"p">>, <<"q">> >>},
        capabilities \in {<<>>, << <<"k">> >>}}

InitRepository == IndexBuilt(MainLoaders, MainConfig)

NextRepository ==
    \/ \E tool \in RepoToolInputs : AddTool(tool)
    \/ \E name \in RepoNames : RemoveTool(name)
    \/ ClearRepository
    \/ \E category \in RepoCategoryNames : GetToolsByCategory(category)
    \/ \E capability \in RepoCapabilityNames : GetToolsByCapability(capability)

SpecRepository == InitRepository /\ [][NextRepository]_vars

\* a list holds its tools once each
NoDuplicates(list) == \A i, j \in 1..Len(list) : i # j => list[i] # list[j]

\* C23: after any sequence of addTool, removeTool and clear the indexes agree with
\* the name index: getToolsByCategory(c) and getToolsByCapability(c) return exactly
\* the stored tools that declare c, each once
C23_IndexesAgree ==
    /\ \A c \in RepoCategoryNames :
           /\ Range(getToolsByCategory(c))
                  = {tool \in Range(repoTools) : c \in Range(tool.categories)}
           /\ NoDuplicates(getToolsByCategory(c))
    /\ \A c \in RepoCapabilityNames :
           /\ Range(getToolsByCapability(c))
                  = {tool \in Range(repoTools) : c \in Range(tool.capabilities)}
           /\ NoDuplicates(getToolsByCapability(c))

(***************************************************************************)
(* ProxyService and ProxyServer                                            *)
(***************************************************************************)
\* a JavaScript value: its kind and, for an object or an array, its own properties
\* (an array's keys are its indices)
JValue(kind, entries) == [kind |-> kind, value |-> entries]

\* typeof value
TypeOf(value) ==
    IF value.kind \in {"object", "array", "null"} THEN "object" ELSE value.kind

\* Object.keys(value)
ObjectKeys(value) == [i \in 1..Len(value.value) |-> value.value[i].key]

\* prop in value; an array has a length
HasProperty(value, prop) ==
    \/ prop \in Range(ObjectKeys(value))
    \/ value.kind = "array" /\ prop = "length"

\* value[prop], for a property the value has
GetProperty(value, prop) ==
    IF prop \in Range(ObjectKeys(value))
    THEN (CHOOSE e \in Range(value.value) : e.key = prop).value
    ELSE JValue("number", <<>>)

checkType(value, type) ==
    CASE type = "string" -> TypeOf(value) = "string"
      [] type = "number" -> TypeOf(value) = "number"
      [] type = "boolean" -> TypeOf(value) = "boolean"
      [] type = "object" -> TypeOf(value) = "object" /\ value.kind # "null"
                                /\ value.kind # "array"
      [] type = "array" -> value.kind = "array"
      [] type = "null" -> value.kind = "null"
      [] OTHER -> TRUE

\* an input schema; properties and required are <<>> when absent, <<list>> when set
Schema(type, properties, additionalProperties, required) ==
    [type |-> type, properties |-> properties,
     additionalProperties |-> additionalProperties, required |-> required]

\* "ok", or the error validateInput throws
validateInput(tool, input) ==
    LET schema == tool.inputSchema
        allowedProperties == ObjectKeys(JValue("object", schema.properties[1]))
        inputProperties == ObjectKeys(input)
    IN IF schema.type = "object" /\ schema.properties # <<>>
       THEN IF TypeOf(input) # "object" \/ input.kind = "null"
            THEN "Input must be an object"
            ELSE IF /\ schema.additionalProperties # "true"
                    /\ \E i \in 1..Len(inputProperties) :
                           inputProperties[i] \notin Range(allowedProperties)
                 THEN "Unknown property"
                 ELSE IF /\ schema.required # <<>>
                         /\ \E i \in 1..Len(schema.required[1]) :
                                ~HasProperty(input, schema.required[1][i])
                      THEN "Missing required property"
                      ELSE IF \E i \in 1..Len(schema.properties[1]) :
                                  LET prop == schema.properties[1][i].key
                                      expectedType == schema.properties[1][i].value.type
                                  IN /\ HasProperty(input, prop)
                                     /\ expectedType # ""
                                     /\ ~checkType(GetProperty(input, prop), expectedType)
                           THEN "Invalid type for property"
                           ELSE "ok"
       ELSE "ok"

\* typeof tool.serverName === 'string' && tool.serverName.length > 0
hasServerName(tool) == tool.serverName # <<>> /\ tool.serverName[1] # <<>>

\* MCPClientManager.executeTool: the result, or the error it throws
ClientExecuteTool(serverName, toolName, input) ==
    IF serverName \notin clients THEN "No connection to server" ELSE "result"

\* a tool of the proxy's repository; backend and serverName are <<>> when absent
ProxyTool(name, inputSchema, backend, serverName) ==
    [name |-> name, categories |-> <<>>, capabilities |-> <<>>,
     inputSchema |-> inputSchema, backend |-> backend, serverName |-> serverName]

\* ProxyService.executeTool: how it ended and the calls it made of
\* clientManager.executeTool
executeTool(toolName, input) ==
    LET tool == GetTool(toolName)
    IN IF tool = <<>> THEN [res |-> "Tool not found", calls |-> <<>>]
       ELSE IF validateInput(tool[1], input) # "ok"
            THEN [res |-> validateInput(tool[1], input), calls |-> <<>>]
            ELSE IF ~hasServerName(tool[1])
                 THEN [res |-> "not associated with a backend server", calls |-> <<>>]
                 ELSE [res |-> ClientExecuteTool(tool[1].serverName[1], toolName, input),
                       calls |-> << <<tool[1].serverName[1], toolName, input>> >>]

ExecuteTool(toolName, input) ==
    /\ out' = [op |-> "executeTool", toolName |-> toolName, input |-> input,
               tool |-> GetTool(toolName),
               res |-> executeTool(toolName, input).res,
               calls |-> executeTool(toolName, input).calls]
    /\ UNCHANGED <<controller, peers>>

\* ProxyService.addToolToRepository
AddToolToRepository(tool) ==
    /\ IF tool.serverName = <<>> \/ tool.serverName[1] = <<>>
       THEN /\ out' = [op |-> "addToolToRepository", tool |-> tool,
                       res |-> "must have serverName"]
            /\ UNCHANGED repository
       ELSE IF GetTool(tool.name) # <<>>
            THEN /\ out' = [op |-> "addToolToRepository", tool |-> tool,
                            res |-> "Tool already exists"]
                 /\ UNCHANGED repository
            ELSE /\ SetRepo(addTool(Repo, tool).repo)
                 /\ out' = [op |-> "addToolToRepository", tool |-> tool,
                            res |-> addTool(Repo, tool).res]
    /\ UNCHANGED <<controller, proxy, server, transport>>

\* a descriptor listed by a backend; name and inputSchema are <<>> when absent
Descriptor(name, inputSchema) == [name |-> name, inputSchema |-> inputSchema]

\* { ...tool, backend: backendName, discoverySource: 'backend' }
toolWithBackend(descriptor, backendName) ==
    ProxyTool(descriptor.name[1], descriptor.inputSchema[1], <<backendName>>, <<>>)

\* the loop over one backend's descriptors; an error thrown by addTool leaves the loop
RECURSIVE DiscoverFrom(_, _, _)
DiscoverFrom(repo, backendName, toolsResult) ==
    IF toolsResult = <<>> THEN repo
    ELSE LET tool == Head(toolsResult)
         IN IF tool.name = <<>> \/ tool.inputSchema = <<>>
            THEN DiscoverFrom(repo, backendName, Tail(toolsResult))
            ELSE LET added == addTool(repo, toolWithBackend(tool, backendName))
                 IN IF added.res # "ok" THEN repo
                    ELSE DiscoverFrom(added.repo, backendName, Tail(toolsResult))

\* start(): mcpServer.start() has returned, connectToBackendServers() begins
StartCall ==
    /\ proxyPc.at = "constructed"
    /\ proxyPc' = IF proxyConfig.backendServers = <<>>
                  THEN [at |-> "discover", i |-> 1]
                  ELSE [at |-> "connect", i |-> 1]
    /\ out' = [op |-> "start", res |-> "pending"]
    /\ UNCHANGED <<controller, server, transport, repository, proxyConfig, clients,
                   backendConnections>>

AfterConnect ==
    IF proxyPc.i < Len(proxyConfig.backendServers)
    THEN [at |-> "connect", i |-> proxyPc.i + 1]
    ELSE [at |-> "discover", i |-> 1]

\* clientManager.connect resolves
ConnectResolve ==
    /\ proxyPc.at = "connect"
    /\ clients' = clients \cup {proxyConfig.backendServers[proxyPc.i]}
    /\ backendConnections' =
           AddLast(backendConnections, proxyConfig.backendServers[proxyPc.i])
    /\ proxyPc' = AfterConnect
    /\ out' = [op |-> "connect", backend |-> proxyConfig.backendServers[proxyPc.i],
               res |-> "connected"]
    /\ UNCHANGED <<controller, server, transport, repository, proxyConfig>>

\* clientManager.connect rejects: logged, the loop goes on
ConnectReject ==
    /\ proxyPc.at = "connect"
    /\ proxyPc' = AfterConnect
    /\ out' = [op |-> "connect", backend |-> proxyConfig.backendServers[proxyPc.i],
               res |-> "failed"]
    /\ UNCHANGED <<controller, server, transport, repository, proxyConfig, clients,
                   backendConnections>>

\* one round of the loop of discoverBackendTools; listTools resolves with toolsResult
\* or rejects
DiscoverBackendTools(listed) ==
    /\ proxyPc.at = "discover"
    /\ proxyPc.i <= Len(backendConnections)
    /\ SetRepo(IF listed.throws THEN Repo
               ELSE DiscoverFrom(Repo, backendConnections[proxyPc.i], listed.tools))
    /\ proxyPc' = [proxyPc EXCEPT !.i = @ + 1]
    /\ out' = [op |-> "listTools", backend |-> backendConnections[proxyPc.i],
               listed |-> listed]
    /\ UNCHANGED <<controller, server, transport, proxyConfig, clients,
                   backendConnections>>

\* the check after discovery, and the end of start()
StartFinish ==
    /\ proxyPc.at = "discover"
    /\ proxyPc.i > Len(backendConnections)
    /\ LET fails == /\ Len(backendConnections) = 0 \/ Len(repoTools) = 0
                    /\ proxyConfig.requireTools # "false"
       IN /\ proxyPc' = [at |-> IF fails THEN "failed" ELSE "started", i |-> 0]
          /\ out' = [op |-> "start",
                     res |-> IF fails THEN "No tools available" ELSE "ok"]
    /\ UNCHANGED <<controller, server, transport, repository, proxyConfig, clients,
                   backendConnections>>

BackendNames == << <<"b", "1">>, <<"b", "2">> >>

ProxyConfigs ==
    {[backendServers |-> servers, requireTools |-> requireTools] :
        servers \in {<<>>, BackendNames},
        requireTools \in {"undefined", "true", "false"}}

PlainSchema == Schema("object", <<>>, "undefined", <<>>)
PropertiesSchema ==
    Schema("object",
           << <<Entry("a", [type |-> "string"]), Entry("b", [type |-> ""])>> >>,
           "undefined", << <<"a">> >>)
OpenSchema ==
    Schema("object", << <<Entry("a", [type |-> "string"])>> >>, "true", <<>>)
RequiredSchema == Schema("object", <<>>, "false", << <<"a">> >>)

\* what listTools may resolve with, or its rejection
ListToolsResults ==
    {[throws |-> TRUE, tools |-> <<>>]}
    \cup {[throws |-> FALSE, tools |-> tools] :
            tools \in {<<>>,
                       <<Descriptor(<< <<"a">> >>, <<PlainSchema>>)>>,
                       <<Descriptor(<< <<"a">> >>, <<PropertiesSchema>>),
                         Descriptor(<<>>, <<PlainSchema>>),
                         Descriptor(<< <<"b">> >>, <<OpenSchema>>)>>,
                       <<Descriptor(<< <<"a">> >>, <<PlainSchema>>),
                         Descriptor(<< <<"b">> >>, <<>>)>>,
                       <<Descriptor(<< <<"a">> >>, <<RequiredSchema>>),
                         Descriptor(<< <<>> >>, <<PlainSchema>>),
                         Descriptor(<< <<"b">> >>, <<PlainSchema>>)>>}}

\* the tools handed to addToolToRepository
ServerTools ==
    {ProxyTool(<<"s">>, schema, <<>>, serverName) :
        schema \in {PlainSchema, PropertiesSchema, OpenSchema, RequiredSchema},
        serverName \in {<<>>, << <<>> >>, << <<"b", "1">> >>}}

ProxyToolNames == {<<"a">>, <<"b">>, <<"s">>}

StringValue == JValue("string", <<>>)
NumberValue == JValue("number", <<>>)

ProxyInputs ==
    {JValue("object", <<Entry("a", StringValue)>>),
     JValue("object", <<Entry("a", NumberValue)>>),
     JValue("object", <<>>),
     JValue("object", <<Entry("a", StringValue), Entry("z", StringValue)>>),
     JValue("array", <<>>),
     JValue("array", <<Entry("0", StringValue)>>),
     JValue("null", <<>>),
     StringValue}

InitProxy ==
    /\ ControllerBuilt(MainLoaders, MainConfig)
    /\ out = NoOut
    /\ RepositoryConstructed
    /\ \E cfg \in ProxyConfigs : ProxyConstructed(cfg)
    /\ ServerConstructed([loadBalancer |-> FALSE])
    /\ TransportConstructed

NextProxy ==
    \/ StartCall
    \/ ConnectResolve
    \/ ConnectReject
    \/ \E listed \in ListToolsResults : DiscoverBackendTools(listed)
    \/ StartFinish
    \/ \E toolName \in ProxyToolNames, input \in ProxyInputs : ExecuteTool(toolName, input)
    \/ \E tool \in ServerTools : AddToolToRepository(tool)

SpecProxy == InitProxy /\ [][NextProxy]_vars

\* the rules of section 4.7 for a schema of type object
SatisfiesSchema(schema, input) ==
    schema.type = "object" =>
        LET declared == IF schema.properties = <<>> THEN <<>> ELSE schema.properties[1]
            primitive == {"string", "number", "boolean", "object", "array", "null"}
        IN /\ input.kind = "object"
           /\ schema.additionalProperties # "true" =>
                  \A e \in Range(input.value) :
                      \E d \in Range(declared) : d.key = e.key
           /\ schema.required # <<>> =>
                  \A r \in Range(schema.required[1]) :
                      \E e \in Range(input.value) : e.key = r
           /\ \A d \in Range(declared), e \in Range(input.value) :
                  (d.key = e.key /\ d.value.type \in primitive)
                      => checkType(e.value, d.value.type)

\* C24: executeTool dispatches to the backend only if the input satisfies the tool's
\* inputSchema under the rules of section 4.7; for any other input the backend is
\* never called
C24_DispatchOnlyValidInput ==
    (out.op = "executeTool" /\ out.calls # <<>>)
        => SatisfiesSchema(out.tool[1].inputSchema, out.input)

\* C25: when the tool exists and validation succeeds, executeTool calls
\* clientManager.executeTool(tool.backend, tool.name, input) exactly once, with the
\* backend that discovery recorded on the descriptor, and returns its result
C25_RoutesToRecordedBackend ==
    (/\ out.op = "executeTool"
     /\ out.tool # <<>>
     /\ out.tool[1].backend # <<>>
     /\ validateInput(out.tool[1], out.input) = "ok")
        => /\ out.calls = << <<out.tool[1].backend[1], out.tool[1].name, out.input>> >>
           /\ out.res = ClientExecuteTool(out.tool[1].backend[1], out.tool[1].name,
                                          out.input)

\* C26: start fails for lack of backends or tools only when requireTools = true;
\* backends that fail to connect do not make it fail
C26_StartFailsOnlyIfRequired ==
    (out.op = "start" /\ out.res = "No tools available")
        => proxyConfig.requireTools = "true"

\* C27: after a backend's descriptors were processed, every valid descriptor of the
\* list, before or after a malformed one, is in the repository
C27_ValidDescriptorsAdded ==
    (out.op = "listTools" /\ ~out.listed.throws)
        => \A i \in 1..Len(out.listed.tools) :
               LET descriptor == out.listed.tools[i]
               IN (/\ descriptor.name # <<>>
                   /\ descriptor.name[1] # <<>>
                   /\ descriptor.inputSchema # <<>>)
                      => GetTool(descriptor.name[1]) # <<>>

(***************************************************************************)
(* MCPServer: sessions and request handling                                *)
(***************************************************************************)
\* the sessions the model creates
MaxSessionIds == 3

\* SessionManager's maxSessions
SessionLimit == 2

SessionIds == 1..MaxSessionIds

\* SessionManager.createSession: the oldest idle session makes room at the limit
createSession(held) ==
    (IF Len(held) >= SessionLimit THEN Tail(held) ELSE held) \o <<sessionsCreated + 1>>

\* SessionManager.removeSession
removeSession(held, sessionId) == Without(held, sessionId)

\* SessionManager.updateActivity: the session becomes the least idle one
updateActivity(held, sessionId) ==
    IF sessionId \in Range(held) THEN Append(Without(held, sessionId), sessionId)
    ELSE held

\* terminateSession forgets the current session only
KeepCurrent(current, sessionId) == current

\* if (this.currentSession?.id === sessionId) this.currentSession = undefined
ClearCurrent(current, sessionId) ==
    IF current = <<sessionId>> THEN <<>> ELSE current

Response(method, live, code, passedTo) ==
    [op |-> "handleRequest", method |-> method, live |-> live, code |-> code,
     passedTo |-> passedTo]

\* MCPServer.start (server.ts): no interval is scheduled
ServerStart ==
    /\ IF serverRunning
       THEN /\ out' = [op |-> "MCPServer.start", res |-> "MCP server already running"]
            /\ UNCHANGED serverRunning
       ELSE /\ serverRunning' = TRUE
            /\ out' = [op |-> "MCPServer.start", res |-> "ok"]
    /\ UNCHANGED <<controller, repository, proxy, transport, serverConfig, sweepInterval,
                   currentSession, sessions, initialized, sessionsCreated, liveSession>>

ServerStop ==
    /\ IF ~serverRunning
       THEN UNCHANGED <<serverRunning, sweepInterval, sessions, currentSession,
                        liveSession>>
       ELSE /\ sweepInterval' = "unset"
            /\ sessions' = <<>>
            /\ serverRunning' = FALSE
            /\ currentSession' = <<>>
            /\ liveSession' = <<>>
    /\ out' = [op |-> "MCPServer.stop", res |-> "ok"]
    /\ UNCHANGED <<controller, repository, proxy, transport, serverConfig, initialized,
                   sessionsCreated>>

TerminateSession(sessionId) ==
    /\ sessions' = removeSession(sessions, sessionId)
    /\ currentSession' = ClearCurrent(currentSession, sessionId)
    /\ liveSession' = IF liveSession = <<sessionId>> THEN <<>> ELSE liveSession
    /\ out' = [op |-> "terminateSession", sessionId |-> sessionId]
    /\ UNCHANGED <<controller, repository, proxy, transport, serverConfig, serverRunning,
                   sweepInterval, initialized, sessionsCreated>>

\* the session manager's cleanup removes the most idle session
SessionExpires ==
    /\ sessions # <<>>
    /\ sessions' = Tail(sessions)
    /\ out' = [op |-> "cleanup", sessionId |-> Head(sessions)]
    /\ UNCHANGED <<controller, repository, proxy, transport, serverConfig, serverRunning,
                   sweepInterval, currentSession, initialized, sessionsCreated,
                   liveSession>>

\* handleRequest for an initialize request: handleInitialize
HandleInitialize(hasParams) ==
    /\ serverRunning
    /\ IF ~hasParams
       THEN /\ out' = Response("initialize", liveSession # <<>>, "-32602", {})
            /\ UNCHANGED <<currentSession, sessions, initialized, sessionsCreated,
                           liveSession>>
       ELSE /\ sessionsCreated < MaxSessionIds
            /\ sessions' = createSession(sessions)
            /\ sessionsCreated' = sessionsCreated + 1
            /\ currentSession' = <<sessionsCreated + 1>>
            /\ initialized' = initialized \cup {sessionsCreated + 1}
            /\ liveSession' = <<sessionsCreated + 1>>
            /\ out' = Response("initialize", liveSession # <<>>, "result", {})
    /\ UNCHANGED <<controller, repository, proxy, transport, serverConfig, serverRunning,
                   sweepInterval>>

\* handleRequest for another method; allowed is the load balancer's answer and
\* routed tells whether router.route returns or throws
HandleRequest(method, allowed, routed) ==
    LET create == currentSession = <<>>
        session == IF create THEN sessionsCreated + 1 ELSE currentSession[1]
        held == IF create THEN createSession(sessions) ELSE sessions
        balanced == IF serverConfig.loadBalancer THEN {"loadBalancer"} ELSE {}
    IN /\ serverRunning
       /\ create => sessionsCreated < MaxSessionIds
       /\ currentSession' = <<session>>
       /\ sessionsCreated' = IF create THEN sessionsCreated + 1 ELSE sessionsCreated
       /\ IF session \notin initialized
          THEN /\ sessions' = held
               /\ out' = Response(method, liveSession # <<>>, "-32002", {})
          ELSE /\ sessions' = updateActivity(held, session)
               /\ out' = IF serverConfig.loadBalancer /\ ~allowed
                         THEN Response(method, liveSession # <<>>, "-32000", balanced)
                         ELSE Response(method, liveSession # <<>>,
                                       IF routed THEN "result" ELSE "error",
                                       balanced \cup {"router"})
       /\ UNCHANGED <<controller, repository, proxy, transport, serverConfig,
                      serverRunning, sweepInterval, initialized, liveSession>>

Methods == {"tools/list", "tools/call"}

InitServer ==
    /\ ControllerBuilt(MainLoaders, MainConfig)
    /\ out = NoOut
    /\ RepositoryConstructed
    /\ ProxyConstructed([backendServers |-> <<>>, requireTools |-> "undefined"])
    /\ \E enabled \in BOOLEAN : ServerConstructed([loadBalancer |-> enabled])
    /\ TransportConstructed

NextServer ==
    \/ ServerStart
    \/ ServerStop
    \/ \E sessionId \in SessionIds : TerminateSession(sessionId)
    \/ SessionExpires
    \/ \E hasParams \in BOOLEAN : HandleInitialize(hasParams)
    \/ \E method \in Methods, allowed \in BOOLEAN, routed \in BOOLEAN :
           HandleRequest(method, allowed, routed)

SpecServer == InitServer /\ [][NextServer]_vars

\* C28: a request other than initialize, received while the session is not
\* initialized (before any initialize, or after the session was terminated), is
\* answered with -32002 and passed neither to the load balancer nor to the router
C28_UninitializedRejected ==
    (out.op = "handleRequest" /\ out.method # "initialize" /\ ~out.live)
        => out.code = "-32002" /\ out.passedTo = {}

\* a request rejected after the initialized session was terminated
C28_Witness ==
    /\ out.op = "handleRequest"
    /\ out.method # "initialize"
    /\ out.code = "-32002"
    /\ serverRunning
    /\ liveSession = <<>>
    /\ currentSession # <<>>
    /\ \E sessionId \in initialized : sessionId < currentSession[1]

(***************************************************************************)
(* MCPServer: periodic sweeping                                            *)
(***************************************************************************)
\* startPeriodicSweeping: the interval is scheduled only if this.gateController is
\* set (<<>> when undefined)
startPeriodicSweeping(gateController) ==
    IF gateController = <<>> THEN "unset" ELSE "set"

\* MCPServer.start of the class that has startPeriodicSweeping: that class never
\* assigns gateController
ServerStartSweeping ==
    /\ IF serverRunning
       THEN /\ out' = [op |-> "MCPServer.start", res |-> "MCP server already running"]
            /\ UNCHANGED <<serverRunning, sweepInterval>>
       ELSE /\ sweepInterval' = startPeriodicSweeping(<<>>)
            /\ serverRunning' = TRUE
            /\ out' = [op |-> "MCPServer.start", res |-> "ok"]
    /\ UNCHANGED <<controller, repository, proxy, transport, serverConfig,
                   currentSession, sessions, initialized, sessionsCreated, liveSession>>

\* the callback of the interval: sweepExpiredToolsets(), then enforceLRUCap().
\* No start() schedules it, so it is no part of NextSweep.
SweepIntervalCallback ==
    /\ sweepInterval = "set"
    /\ LET swept == SweepExpiredOp(Ctl, now)
           capped == EnforceLRUCapOp(swept.st)
       IN /\ SetCtl(capped.st)
          /\ ret' = Ret("sweepInterval", NoSet, {}, "ok", swept.disabled \o capped.disabled)
    /\ UNCHANGED <<peers, config, out, index, inflightEnable, pinned, now, callers,
                   directEnables>>

InitSweep == IndexBuilt(MainLoaders, MainConfig)

\* the server is started and stopped, time passes, and clients enable, use and pin
\* toolsets
NextSweep ==
    \/ ServerStart
    \/ ServerStartSweeping
    \/ ServerStop
    \/ Tick
    \/ \E name \in ToolsetIds : EnableToolset(name)
    \/ \E t \in RequestNames : MarkUsed(t)
    \/ \E name \in ToolsetIds : PinToolset(name)
    \/ \E name \in ToolsetIds : UnpinToolset(name)

\* time passes, and a scheduled interval fires
SpecSweep ==
    InitSweep /\ [][NextSweep]_vars /\ WF_vars(Tick) /\ WF_vars(SweepIntervalCallback)

SweepableIds == {MainLoaders[i].id : i \in 1..Len(MainLoaders)}

\* an active, unpinned toolset of the running server, unused for longer than its TTL
IdleTooLong(id) ==
    /\ serverRunning
    /\ IsActive(Ctl, id)
    /\ id \notin pinned
    /\ now - LastUsedOf(Ctl, id) > ttlMs

\* C29: while the server is running the sweep is scheduled on an interval, so that
\* an unpinned toolset left unused for longer than its TTL is eventually disabled
\* without any client request
C29_IdleToolsetEventuallyDisabled ==
    /\ [](serverRunning => sweepInterval = "set")
    /\ \A id \in SweepableIds : IdleTooLong(id) ~> ~IdleTooLong(id)

(***************************************************************************)
(* WebSocketTransport: requests awaiting their response                    *)
(***************************************************************************)
\* the requests sent in one run of the model
MaxRequests == 2

\* request ids; a caller may use an id again, also while it is in flight
RequestIds == {"r1", "r2"}

\* the promise sendRequest returns: how it was settled, how often resolve or reject
\* was called on it, and its timer
Waiter(id, settled, settles, timer) ==
    [id |-> id, settled |-> settled, settles |-> settles, timer |-> timer]

\* a call of resolve or reject: the first one settles the promise
Settle(waiter, with) ==
    [waiter EXCEPT !.settled = IF waiter.settles = 0 THEN with ELSE @,
                   !.settles = @ + 1]

\* a timer that is left running
KeepTimeout(waiter) == waiter

\* clearTimeout(timer)
ClearTimeout(waiter) == [waiter EXCEPT !.timer = "cleared"]

\* Map.prototype.delete
DeleteKey(map, key) == [k \in DOMAIN map \ {key} |-> map[k]]

\* Map.prototype.set
SetKey(map, key, value) == [k \in DOMAIN map \cup {key} |-> IF k = key THEN value ELSE map[k]]

rest == <<controller, repository, proxy, server, handlers>>

\* start(): the socket opens, or the connection fails
WsStart(opens) ==
    /\ IF wsRunning
       THEN /\ out' = [op |-> "start", res |-> "Transport already running"]
            /\ UNCHANGED wsRunning
       ELSE /\ wsRunning' = opens
            /\ out' = [op |-> "start",
                       res |-> IF opens THEN "ok"
                               ELSE "Failed to start WebSocket transport"]
    /\ UNCHANGED <<rest, pendingRequests, waiters>>

\* the 'close' event of the socket
WsClose ==
    /\ wsRunning
    /\ wsRunning' = FALSE
    /\ out' = [op |-> "close"]
    /\ UNCHANGED <<rest, pendingRequests, waiters>>

\* stop(): every pending request is rejected and its timer cleared
WsStop ==
    /\ IF ~wsRunning
       THEN UNCHANGED <<wsRunning, pendingRequests, waiters>>
       ELSE /\ wsRunning' = FALSE
            /\ waiters' =
                   [w \in 1..Len(waiters) |->
                       IF \E id \in DOMAIN pendingRequests : pendingRequests[id] = w
                       THEN Settle(ClearTimeout(waiters[w]), "Transport stopped")
                       ELSE waiters[w]]
            /\ pendingRequests' = <<>>
    /\ out' = [op |-> "stop"]
    /\ UNCHANGED rest

\* sendRequest(request); sends tells whether ws.send returns or throws
SendRequest(id, sends) ==
    /\ Len(waiters) < MaxRequests
    /\ IF ~wsRunning
       THEN /\ out' = [op |-> "sendRequest", id |-> id, res |-> "Transport not running"]
            /\ UNCHANGED <<pendingRequests, waiters>>
       ELSE IF sends
            THEN /\ waiters' = Append(waiters, Waiter(id, "pending", 0, "armed"))
                 /\ pendingRequests' = SetKey(pendingRequests, id, Len(waiters) + 1)
                 /\ out' = [op |-> "sendRequest", id |-> id, res |-> "sent"]
            ELSE /\ waiters' =
                        Append(waiters,
                               Settle(ClearTimeout(Waiter(id, "pending", 0, "armed")),
                                      "Failed to send request"))
                 /\ pendingRequests' = DeleteKey(pendingRequests, id)
                 /\ out' = [op |-> "sendRequest", id |-> id,
                            res |-> "Failed to send request"]
    /\ UNCHANGED <<rest, wsRunning>>

\* what processMessage did with a message: the handler it invoked and what it
\* sent to the peer
Processed(id, res, handler, sent) ==
    [op |-> "processMessage", id |-> id, res |-> res, handler |-> handler, sent |-> sent]

\* handleRequest(request); throws tells whether the request handler throws
handleRequest(id, throws) ==
    IF ~requestHandler
    THEN Processed(id, "request", "none", "No request handler registered")
    ELSE Processed(id, "request", "requestHandler",
                   IF throws THEN "Internal error" ELSE "response")

\* handleNotification(notification)
handleNotification(id) ==
    Processed(id, "notification",
              IF notificationHandler THEN "notificationHandler" ELSE "none", "nothing")

\* processMessage for a well-formed message with this id ("undefined" if it has no
\* id field): the response to a pending request, else a notification or a request
ProcessMessage(id, throws) ==
    /\ wsRunning
    /\ IF id # "undefined" /\ id \in DOMAIN pendingRequests
       THEN /\ pendingRequests' = DeleteKey(pendingRequests, id)
            /\ waiters' = [waiters EXCEPT ![pendingRequests[id]] =
                               Settle(ClearTimeout(@), "resolved")]
            /\ out' = Processed(id, "response", "none", "nothing")
       ELSE /\ out' = IF id = "undefined"
                      THEN handleNotification(id)
                      ELSE handleRequest(id, throws)
            /\ UNCHANGED <<pendingRequests, waiters>>
    /\ UNCHANGED <<rest, wsRunning>>

\* onRequest(handler)
OnRequest ==
    /\ requestHandler' = TRUE
    /\ out' = [op |-> "onRequest"]
    /\ UNCHANGED <<controller, repository, proxy, server, notificationHandler,
                   wsRunning, pendingRequests, waiters>>

\* onNotification(handler)
OnNotification ==
    /\ notificationHandler' = TRUE
    /\ out' = [op |-> "onNotification"]
    /\ UNCHANGED <<controller, repository, proxy, server, requestHandler,
                   wsRunning, pendingRequests, waiters>>

\* the timer of a request fires
RequestTimeout(w) ==
    /\ w \in 1..Len(waiters)
    /\ waiters[w].timer = "armed"
    /\ pendingRequests' = DeleteKey(pendingRequests, waiters[w].id)
    /\ waiters' = [waiters EXCEPT ![w] =
                       Settle([@ EXCEPT !.timer = "fired"], "Request timeout")]
    /\ out' = [op |-> "timeout", id |-> waiters[w].id, waiter |-> w]
    /\ UNCHANGED <<rest, wsRunning>>

InitTransport == IndexBuilt(MainLoaders, MainConfig)

NextTransport ==
    \/ \E opens \in BOOLEAN : WsStart(opens)
    \/ WsClose
    \/ WsStop
    \/ \E id \in RequestIds, sends \in BOOLEAN : SendRequest(id, sends)
    \/ \E id \in RequestIds \cup {"undefined"}, throws \in BOOLEAN : ProcessMessage(id, throws)
    \/ OnRequest
    \/ OnNotification
    \/ \E w \in 1..MaxRequests : RequestTimeout(w)

\* an armed timer fires unless it is cleared, and a timer fires only once
SpecTransport ==
    /\ InitTransport
    /\ [][NextTransport]_vars
    /\ WF_vars(\E w \in 1..MaxRequests : RequestTimeout(w))

\* what a step of the transport does to the pending requests
C30_Step ==
    /\ (out'.op = "sendRequest" /\ out'.res = "sent")
           => /\ out'.id \in DOMAIN pendingRequests'
              /\ pendingRequests'[out'.id] = Len(waiters')
              /\ waiters'[Len(waiters')] = Waiter(out'.id, "pending", 0, "armed")
    /\ (out'.op = "processMessage" /\ out'.id \in DOMAIN pendingRequests)
           => /\ out'.id \notin DOMAIN pendingRequests'
              /\ waiters'[pendingRequests[out'.id]].settled = "resolved"
    /\ out'.op = "timeout"
           => /\ out'.id \notin DOMAIN pendingRequests'
              /\ waiters'[out'.waiter].settled = "Request timeout"

\* C30: sendRequest records a pending entry under the request id; a response with
\* that id resolves the waiter of the entry and removes the entry; when the timer
\* fires the entry is removed and the waiter rejected with 'Request timeout'; every
\* waiter is settled, and exactly once
C30_EveryWaiterSettledOnce ==
    /\ [][C30_Step]_vars
    /\ [](\A w \in 1..Len(waiters) :
              /\ waiters[w].settles <= 1
              /\ waiters[w].settles = 0 <=> waiters[w].settled = "pending")
    /\ \A w \in 1..MaxRequests :
           (Len(waiters) >= w) ~> (Len(waiters) >= w /\ waiters[w].settles = 1)

\* one request was resolved by its response after another had timed out
C30_Witness ==
    \E resolved, timedOut \in 1..Len(waiters) :
        /\ waiters[resolved].settled = "resolved"
        /\ waiters[timedOut].settled = "Request timeout"
        /\ timedOut < resolved

\* C31: stop rejects every pending request with 'Transport stopped' and leaves no
\* pending entry and no armed request timer, whether the connection was open or
\* had been closed by the peer
C31_StopCancelsEverything ==
    [][out'.op = "stop" =>
           /\ pendingRequests' = <<>>
           /\ \A w \in 1..Len(waiters) :
                  /\ waiters'[w].timer # "armed"
                  /\ waiters[w].settled = "pending"
                         => waiters'[w].settled = "Transport stopped"]_vars

\* a request under this id has timed out and none is pending under it
TimedOut(id) ==
    /\ id \notin DOMAIN pendingRequests
    /\ \E w \in 1..Len(waiters) :
           waiters[w].id = id /\ waiters[w].settled = "Request timeout"

\* C32: a response that arrives after its request has timed out is discarded: no
\* waiter is resolved, no handler is invoked with it, nothing is sent to the peer
C32_LateResponseDiscarded ==
    [][(out'.op = "processMessage" /\ out'.id # "undefined" /\ TimedOut(out'.id)) =>
           /\ waiters' = waiters
           /\ out'.handler = "none"
           /\ out'.sent = "nothing"]_vars

\* C33: when the connection is lost, every request in flight is rejected with
\* 'Transport stopped' at the disconnect
C33_DisconnectRejectsInflight ==
    [][out'.op = "close" =>
           \A w \in 1..Len(waiters) :
               waiters[w].settled = "pending"
                   => waiters'[w].settled = "Transport stopped"]_vars

(***************************************************************************)
(* The reverse index and the conflict-resolution policy                    *)
(***************************************************************************)
PolicyConfigs ==
    {[AutoConfig EXCEPT !.autoEnableConflictResolution = p, !.autoEnableBlocklist = <<>>] :
        p \in {"undefined", "prefer-enabled", "first-match", "error"}}

\* ensureToolAvailable under each policy, from the construction of the controller
\* on, for a tool of two toolsets and a tool of one, between awaited enableToolset calls
InitIndex == \E cfg \in PolicyConfigs : Constructed(AutoLoaders, cfg)

NextIndex ==
    \/ CtorBuildStep
    \/ \E c \in Callers, t \in {<<"x">>, <<"b">>} : EnsureCall(c, t)
    \/ \E c \in Callers : EnsureBuildStep(c)
    \/ EnsureSteps
    \/ \E name \in ToolsetIds : EnableToolset(name)

SpecIndex == InitIndex /\ [][NextIndex]_vars

\* the toolsets whose manifest lists the tool under its normalized name
Claimants(toolName) ==
    {l.id : l \in {m \in Range(toolsetLoaders) :
                     \E i \in 1..Len(m.manifest) :
                         normalizeToolName(m.manifest[i]) = normalizeToolName(toolName)}}

\* the toolset a step of ensureToolAvailable selected for caller c
Selected(c) ==
    IF callers'[c].pc \in {"awaitEnable", "awaitSettled"} THEN callers'[c].target ELSE ret'.set

\* C34: prefer-enabled selects the first listed owner that is active, else the
\* first listed owner; first-match selects the first listed owner; error throws
\* Ambiguous if the tool has more than one owner, else selects the single owner
C34_TargetByPolicy ==
    [][\A c \in Callers :
          (EnsureResume(c) /\ Owners(callers[c].tool) # <<>>) =>
              LET owners == Owners(callers[c].tool)
                  active == {i \in 1..Len(owners) : owners[i] \in Range(activeToolsets)}
                  configured == filterConfig.autoEnableConflictResolution
              IN CASE configured \in {"undefined", "prefer-enabled"} ->
                          Selected(c) = IF active = {} THEN owners[1]
                                        ELSE owners[CHOOSE i \in active :
                                                       \A j \in active : i <= j]
                   [] configured = "first-match" -> Selected(c) = owners[1]
                   [] configured = "error" ->
                          IF Cardinality(Claimants(callers[c].tool)) > 1
                          THEN ret'.res = "ambiguous"
                          ELSE ret'.res # "ambiguous" /\ Selected(c) = owners[1]]_vars

\* C37: the reverse index lists a toolset at most once per tool name, and under
\* policy error a tool that one toolset claims is never reported as ambiguous
C37_IndexListsOwnersOnce ==
    /\ \A n \in DOMAIN toolNameToToolsetIndex : NoDuplicates(toolNameToToolsetIndex[n])
    /\ (ret.op = "ensureToolAvailable" /\ ret.res = "ambiguous") =>
           \A t \in ret.tools : Cardinality(Claimants(t)) > 1

\* C35: the in-flight entry of a toolset is removed when its enable finishes: when
\* no ensureToolAvailable call is in progress the in-flight map is empty, and no
\* call is handed a promise that has already returned or failed
C35_InflightEntryRemoved ==
    /\ (\A c \in Callers : callers[c].pc = "idle") =>
           \A s \in ToolsetIds : inflightEnable[s] = "none"
    /\ \A c \in Callers : callers[c].pc # "awaitSettled"

\* the first half of C35 alone
C35_EmptyWhenIdle ==
    (\A c \in Callers : callers[c].pc = "idle") =>
        \A s \in ToolsetIds : inflightEnable[s] = "none"

(***************************************************************************)
(* ensureToolAvailable while time passes and the sweep runs                *)
(***************************************************************************)
InitUse == IndexBuilt(AutoLoaders, [AutoConfig EXCEPT !.maxActiveToolsets = 2])

NextUse ==
    \/ Tick
    \/ \E c \in Callers, t \in RequestNames : EnsureCall(c, t)
    \/ EnsureSteps
    \/ SweepExpiredToolsets

SpecUse == InitUse /\ [][NextUse]_vars

\* ensureToolAvailable has just returned true for a tool that was active
ReturnedActive(r) ==
    /\ r.op = "ensureToolAvailable"
    /\ r.res = "true"
    /\ \A t \in r.tools : ProviderOf(t) # NoSet

\* C36: when ensureToolAvailable returns true for a tool that is active, the
\* toolset providing it has just been marked as used, so that a sweep that comes
\* next does not disable it
C36_ActiveToolMarkedUsed ==
    [][/\ \A c \in Callers, t \in RequestNames :
              (EnsureCall(c, t) /\ ret'.res = "true" /\ ProviderOf(t) # NoSet) =>
                  LastUsedOf(Ctl', ProviderOf(t)) = now
       /\ (ReturnedActive(ret) /\ ret'.op = "sweepExpiredToolsets") =>
              \A t \in ret.tools : ProviderOf(t) \notin Range(ret'.disabled)]_vars

(***************************************************************************)
(* enableToolset calls (gate/enable_toolset) next to ensureToolAvailable   *)
(***************************************************************************)
InitDirect == IndexBuilt(AutoLoaders, AutoConfig)

NextDirect ==
    \/ \E c \in Callers, t \in {<<"x">>, <<"b">>} : EnsureCall(c, t)
    \/ EnsureSteps
    \/ \E name \in ToolsetIds \cup {UnknownToolset} : EnableToolsetCall(name)
    \/ \E s \in ToolsetIds : DirectLoaderResolve(s)
    \/ \E s \in ToolsetIds : DirectLoaderReject(s)

SpecDirect == InitDirect /\ [][NextDirect]_vars

\* the loader invocations of toolset s that have not settled yet
LoadsInProgress(s) ==
    directEnables[s]
        + (IF inflightEnable[s] = "loading" THEN 1 ELSE 0)
        + Cardinality({p \in Callers : callers[p].load = "loading" /\ callers[p].target = s})

\* C38: a step that invokes the loader of a toolset finds the toolset inactive and
\* no invocation of its loader in progress
C38_NoLoadWhileLoadingOrActive ==
    [][\A s \in ToolsetIds :
          LoadsInProgress(s)' > LoadsInProgress(s) =>
              s \notin ActiveSet /\ LoadsInProgress(s) = 0]_vars

(***************************************************************************)
(* Case-insensitive tool names and the blocklist and allowlist             *)
(***************************************************************************)
\* x is blocklisted, by name or by prefix, or missing from the allowlist
CaseConfigs ==
    {[AutoConfig EXCEPT !.autoEnableCaseInsensitive = TRUE,
                        !.autoEnableBlocklist = << <<"x">> >>],
     [AutoConfig EXCEPT !.autoEnableCaseInsensitive = TRUE,
                        !.autoEnableBlocklist = << <<"f", "/", "*">> >>],
     [AutoConfig EXCEPT !.autoEnableCaseInsensitive = TRUE,
                        !.autoEnableBlocklist = <<>>,
                        !.autoEnableAllowlist = << <<"b">> >>]}

\* the names of the tools as the clients may spell them
SpelledNames == {<<"x">>, <<"X">>, <<"f", "/", "r">>, <<"F", "/", "r">>, <<"b">>}

InitCase == \E cfg \in CaseConfigs : IndexBuilt(AutoLoaders, cfg)

NextCase ==
    \/ \E c \in Callers, t \in SpelledNames : EnsureCall(c, t)
    \/ EnsureSteps
    \/ \E name \in ToolsetIds : DisableToolset(name)

SpecCase == InitCase /\ [][NextCase]_vars

\* C39: with autoEnableCaseInsensitive the blocklist and allowlist decide alike for
\* two names that differ only in letter case, and a name whose lower-case form may
\* not be auto-enabled starts no load
C39_GateIgnoresCase ==
    /\ [](\A t, u \in SpelledNames :
              ToLowerCase(t) = ToLowerCase(u) => (GateClosed(t) <=> GateClosed(u)))
    /\ [][\A c \in Callers :
              (EnsureResume(c) /\ GateClosed(ToLowerCase(callers[c].tool)))
                  => UNCHANGED inflightEnable /\ callers'[c].pc = "idle"]_vars

(***************************************************************************)
(* enableToolset and the LRU cap that ends it                              *)
(***************************************************************************)
\* C40: when enableToolset(s) returns without error, s is active and the tools of s
\* are in the active map; the LRU cap at the end of the enable never
\* disables s itself, also when every other active toolset is pinned
C40_EnabledStaysActive ==
    (ret.op = "enableToolset" /\ ret.res \in {"ok", "noop"}) =>
        /\ ret.set \in ActiveSet
        /\ \A n \in Range(LoaderOf(ret.set).tools) : AlreadyLoaded(n)

====
